---- MODULE Spec2Model ----
(***************************************************************************)
(* Model of the session and coordination engine of the CollabVM server     *)
(* (src/CollabVmServer.hpp).  Every piece of shared state is owned by a    *)
(* strand (StrandGuard); a strand is modelled as a FIFO of pending tasks   *)
(* and one action runs the task at its head to completion.                 *)
(*                                                                         *)
(* The engine is checked subsystem by subsystem, one specification each:   *)
(*   SpecSend  per-socket send pipeline and channel broadcast              *)
(*   SpecSendFair the send pipeline when tasks and writes complete         *)
(*   SpecUser  guest-name table, username strand, session minting          *)
(*   SpecTurn  turn controller of one VM                                   *)
(*   SpecIp    per-IP connection accounting                                *)
(*   SpecChan  channel membership and viewer lists across disconnects      *)
(*   SpecChat  direct chats between sockets                                *)
(*   SpecChatLimit direct chats when a table is nearly full                *)
(*   SpecAdmin the admin gate of the admin-only messages                   *)
(*   SpecRename change-username with its rate limit                        *)
(*   SpecVm    VM registry, VM lists and the chat of the channels          *)
(*   SpecRec   recording controller of one VM                              *)
(*   SpecPreview the playback preview walk over the recording files        *)
(*   SpecOwner the serialization owners and the thread pool                *)
(*   SpecAuth  login, registration and the minting of sessions             *)
(*   SpecInfo  VM info lists across creation, deletion and info updates    *)
(*   SpecFilter the message filter of the recording                        *)
(*   SpecVmset the settings of the VMs across create-vm and update-vm-config *)
(*   SpecInvite registration with an invite                                *)
(*   SpecJoin  chat history and broadcast of one VM channel                *)
(* A specification leaves the variables of the other subsystems at their   *)
(* initial values.                                                         *)
(***************************************************************************)
EXTENDS Integers, Sequences, FiniteSets, TLC

(***************************************************************************)
(* Helpers on sequences.                                                   *)
(***************************************************************************)
Range(q) == { q[i] : i \in 1..Len(q) }

NoDup(q) == \A i, j \in 1..Len(q) : i # j => q[i] # q[j]

\* the position of x in q (0 when absent)
Pos(q, x) == IF \E i \in 1..Len(q) : q[i] = x
             THEN CHOOSE i \in 1..Len(q) : q[i] = x
             ELSE 0

RECURSIVE Without(_, _)
\* q with every occurrence of x erased
Without(q, x) ==
  IF q = <<>> THEN <<>>
  ELSE IF Head(q) = x THEN Without(Tail(q), x)
       ELSE <<Head(q)>> \o Without(Tail(q), x)

RECURSIVE Flatten(_)
\* the concatenation of a sequence of sequences
Flatten(qq) == IF qq = <<>> THEN <<>> ELSE Head(qq) \o Flatten(Tail(qq))

(***************************************************************************)
(* SEND PIPELINE (CollabVmSocket::QueueMessage, QueueMessageBatch,         *)
(* SendMessage, SendMessageBatch, SendMessageCallback) and the broadcast   *)
(* of a user channel.                                                      *)
(***************************************************************************)
\* the sockets of the send-pipeline specification
Sockets == {"a", "b"}

\* messages are numbered in the order they are created; at most MaxMsgs exist
MaxMsgs == 3

\* largest number of messages one QueueMessageBatch callback pushes
MaxBatch == 2

VARIABLES
  send_strand,   \* send_queue_ strand: tasks dispatched and not yet run
  send_queue,    \* send_queue_: std::queue of messages waiting for the write
  sending_,      \* sending_
  writing,       \* messages handed to TSocket::WriteMessage, write in progress
  wire,          \* what each socket has written, in order
  sock_closed,   \* TSocket::Close() was called
  write_error,   \* history: a write of the socket ended with an error code
  enqueued,      \* history: messages in the order QueueMessage[Batch] took them
  chan_users,    \* members of the user channel that broadcasts
  broadcasts,    \* history: the channel's broadcasts, [msg, to]
  next_msg       \* number of the next message to create

sendVars == <<send_strand, send_queue, sending_, writing, wire, sock_closed,
              write_error, enqueued, chan_users, broadcasts, next_msg>>

VARIABLES
  u_live,          \* the connection is open (OnDisconnect has not run)
  username_,       \* username_ (guarded by the socket's username strand)
  is_logged_in_,   \* is_logged_in_
  username_strand, \* username_ strand of each socket: pending tasks
  guests_strand,   \* guests_ strand: pending tasks
  sessions_strand, \* sessions_ strand: pending tasks
  guests_,         \* guests_: case-insensitive map username -> socket
  sessions_,       \* sessions_: map session id -> socket
  db_session,      \* database: current session id of each account (0: none)
  account,         \* history: the account each socket's session was minted for
  taken_replies,   \* history: number of username-taken replies per socket
  user_events        \* number of client events taken so far

userVars == <<u_live, username_, is_logged_in_, username_strand, guests_strand,
              sessions_strand, guests_, sessions_, db_session, account,
              taken_replies, user_events>>

VARIABLES
  t_live,            \* the connection is open (OnDisconnect has not run)
  connected_vm_id_,  \* connected_vm_id_ (0: no VM)
  vms_strand,        \* virtual_machines_ strand: pending tasks
  channel_users,     \* members of the VM's user channel
  turn_ctl,          \* the VM's turn controller
  now,               \* the steady clock
  turn_reqs,         \* history: accepted turn requests, purged ones removed
  turn_grants,       \* history: who was given the turn, and why
  turn_event,        \* history: the last operation on the turn controller
  pause_left,        \* history: time left to the deadline at the last pause
  turn_events        \* number of client events taken so far

turnVars == <<t_live, connected_vm_id_, vms_strand, channel_users, turn_ctl, now,
              turn_reqs, turn_grants, turn_event, pause_left, turn_events>>

VARIABLES
  ip_phase,                 \* where the connection is: new, pre, accepted, ...
  ip_data_,                 \* the socket's ip_data_ ("": null)
  ip_map,                   \* server_.ip_data_: the addresses with an entry
  connections,              \* IPData::connections of each address
  max_connections_enabled,  \* server setting MAX_CONNECTIONS_ENABLED
  max_connections,          \* server setting MAX_CONNECTIONS
  ip_map_strand,            \* server_.ip_data_ strand: pending tasks
  settings_strand,          \* server_.settings_ strand: pending tasks
  ip_strand,                \* the strand of each address's IPData
  settings_stable,          \* history: no setting was changed so far
  refused_count,            \* history: the counter that refused the socket
  setting_changes           \* number of setting changes so far

ipVars == <<ip_phase, ip_data_, ip_map, connections, max_connections_enabled,
            max_connections, ip_map_strand, settings_strand, ip_strand,
            settings_stable, refused_count, setting_changes>>

VARIABLES
  c_live,                    \* the connection is open (OnDisconnect has not run)
  c_has_username,            \* the socket's username_ is not empty
  c_connected_vm_id_,        \* connected_vm_id_ of the sockets of this part
  is_in_global_chat_,        \* is_in_global_chat_
  is_viewing_vm_list_,       \* is_viewing_vm_list_
  is_viewing_server_config,  \* is_viewing_server_config
  c_username_strand,         \* the strand of each socket's username_
  c_guests_strand,           \* server_.guests_ strand
  c_vms_strand,              \* server_.virtual_machines_ strand
  channel_strand,            \* the strand of each channel (global chat, the VM)
  members,                   \* the users of each channel
  vm_list_viewers_,          \* VirtualMachinesList::vm_list_viewers_
  admin_vm_list_viewers_,    \* VirtualMachinesList::admin_vm_list_viewers_
  chan_events                \* number of client events taken so far

chanVars == <<c_live, c_has_username, c_connected_vm_id_, is_in_global_chat_,
              is_viewing_vm_list_, is_viewing_server_config, c_username_strand,
              c_guests_strand, c_vms_strand, channel_strand, members,
              vm_list_viewers_, admin_vm_list_viewers_, chan_events>>

VARIABLES
  chat_rooms_,     \* chat_rooms_ of each socket: rows id -> (peer, peer's id)
  chat_rooms_id_,  \* chat_rooms_id_ of each socket
  chat_strand,     \* the strand of each socket's chat_rooms_
  chat_replies,    \* the messages queued for each socket
  chat_reqs,       \* history: the chat requests received
  chat_event       \* history: the last task run on a chat_rooms_ strand

chatVars == <<chat_rooms_, chat_rooms_id_, chat_strand, chat_replies, chat_reqs,
              chat_event>>

VARIABLES
  a_is_admin_,          \* is_admin_ of the sockets of the admin part
  a_connected_vm_id_,   \* connected_vm_id_ of the sockets of the admin part
  admin_last            \* history: the last admin-only message and its outcome

adminVars == <<a_is_admin_, a_connected_vm_id_, admin_last>>

VARIABLES
  u_now,                  \* the steady clock read by CHANGE_USERNAME
  last_username_change_,  \* last_username_change_ of each socket
  renames                 \* history: the change-username requests received

renameVars == <<u_now, last_username_change_, renames>>

VARIABLES
  v_connected_vm_id_,         \* connected_vm_id_ of the sockets of the registry part
  v_is_in_global_chat_,       \* is_in_global_chat_
  v_is_viewing_vm_list_,      \* is_viewing_vm_list_
  admin_virtual_machines_,    \* VirtualMachinesList::admin_virtual_machines_ (ids)
  admin_vm_info_list_,        \* admin_vm_info_list_: ids in the admin VM list
  vm_info_list_,              \* vm_info_list_: ids in the public VM list
  pending_vm_info_requests_,  \* pending_vm_info_requests_
  pending_vm_info,            \* VMs with HasPendingAdminVmInfo()
  v_vms_strand,               \* virtual_machines_ strand: pending tasks
  v_channel_strand,           \* the strand of each channel
  v_users,                    \* the users of each channel
  v_viewers,                  \* vm_list_viewers_
  chat_history,               \* the chat room of each channel: its messages
  vm_lists_sent,              \* history: the public VM list messages sent
  vm_deleted,                 \* history: VMs removed by a processed delete-vm
  vm_events                   \* number of requests and timer expiries so far

vmVars == <<v_connected_vm_id_, v_is_in_global_chat_, v_is_viewing_vm_list_,
            admin_virtual_machines_, admin_vm_info_list_, vm_info_list_,
            pending_vm_info_requests_, pending_vm_info, v_vms_strand,
            v_channel_strand, v_users, v_viewers, chat_history, vm_lists_sent,
            vm_deleted, vm_events>>

VARIABLES
  rc,          \* the RecordingController of the VM, its timers and its files
  rec_now,     \* steady_clock / system_clock
  rec_event,   \* history: the last call or handler and what it did
  rec_events   \* number of calls of the VM so far

recVars == <<rc, rec_now, rec_event, rec_events>>

VARIABLES
  recordings,  \* the recording files of the VM, in the database and on disk
  preview      \* the recording-preview request of an admin and its walk

previewVars == <<recordings, preview>>

VARIABLES
  owner_queue,  \* per serialization owner: the tasks dispatched and not started
  owner_exec,   \* per pool thread: the task it executes, if any
  owner_log,    \* per serialization owner: the tasks it started, in order
  submitted     \* per source: number of tasks it dispatched so far

ownerVars == <<owner_queue, owner_exec, owner_log, submitted>>

VARIABLES
  auth,            \* per socket: is_logged_in_, is_admin_, totp_key_ and history
  captcha_calls,   \* CaptchaVerifier::Verify calls that did not answer yet
  login_strand_,   \* login_strand_: the posted login lambdas
  settings_tasks,  \* settings_: the dispatched create_account lambdas
  sessions_tasks,  \* sessions_: the dispatched CreateSession lambdas
  auth_up,         \* the server process runs
  auth_events      \* number of client messages so far

authVars == <<auth, captcha_calls, login_strand_, settings_tasks,
              sessions_tasks, auth_up, auth_events>>

VARIABLES
  vml,          \* the VirtualMachinesList: registry, AdminVm objects, lists
  vml_strand,   \* virtual_machines_: the tasks dispatched and not run
  vm_calls,     \* SetVmInfo and UpdateSettings calls the VMs did not answer
  info_event,   \* history: the last task of virtual_machines_ and its effect
  info_up,      \* the server process runs
  info_events   \* number of admin requests and timer expiries so far

infoVars == <<vml, vml_strand, vm_calls, info_event, info_up, info_events>>

VARIABLES
  settings_,                 \* RecordingController::settings_, the Reader the filter reads
  settings_message_builder_, \* the copy of the settings last passed on
  write_event                \* history: the last WriteMessage and its outcome

filterVars == <<settings_, settings_message_builder_, write_event>>

VARIABLES
  vs_registry,   \* admin_virtual_machines_ with the turn time of each VM
  vs_strand,     \* virtual_machines_: the tasks dispatched and not run
  vs_calls,      \* UpdateSettings calls the VMs have not worked off
  vs_event,      \* history: the last settings change and the registry before it
  vs_events      \* number of admin requests so far

vmsetVars == <<vs_registry, vs_strand, vs_calls, vs_event, vs_events>>

VARIABLES
  inv_tasks,     \* settings_: the create_account tasks dispatched and not run
  inv_accounts,  \* the usernames of the accounts of the database
  inv_invites,   \* the invites of the database that can be redeemed
  inv_event,     \* history: the last create_account and its outcome
  inv_events     \* number of registration requests so far

inviteVars == <<inv_tasks, inv_accounts, inv_invites, inv_event, inv_events>>

\* chat history and broadcast of one VM channel
VARIABLES
  jn_live,              \* socket -> the connection is open
  jn_connected_vm_id_,  \* socket -> connected_vm_id_
  jn_vms_strand,        \* virtual_machines_: the tasks dispatched and not run
  jn_channel_strand,    \* the VM's user channel: the tasks dispatched and not run
  jn_users,             \* the users of the channel
  jn_chat_history,      \* the ring of the channel's chat room
  jn_messages,          \* number of chat messages of the channel so far
  jn_inbox,             \* socket -> the messages queued on it, in order
  jn_events             \* number of client events so far

joinVars == <<jn_live, jn_connected_vm_id_, jn_vms_strand, jn_channel_strand, jn_users,
              jn_chat_history, jn_messages, jn_inbox, jn_events>>

vars == <<sendVars, userVars, turnVars, ipVars, chanVars, chatVars, adminVars,
          renameVars, vmVars, recVars, previewVars, ownerVars, authVars,
          infoVars, filterVars, vmsetVars, inviteVars, joinVars>>

\* what the actions of one subsystem leave alone
notSend == <<userVars, turnVars, ipVars, chanVars, chatVars, adminVars,
             renameVars, vmVars, recVars, previewVars, ownerVars, authVars,
             infoVars, filterVars, vmsetVars, inviteVars, joinVars>>
notUser == <<sendVars, turnVars, ipVars, chanVars, chatVars, adminVars,
             renameVars, vmVars, recVars, previewVars, ownerVars, authVars,
             infoVars, filterVars, vmsetVars, inviteVars, joinVars>>
notTurn == <<sendVars, userVars, ipVars, chanVars, chatVars, adminVars,
             renameVars, vmVars, recVars, previewVars, ownerVars, authVars,
             infoVars, filterVars, vmsetVars, inviteVars, joinVars>>
notIp == <<sendVars, userVars, turnVars, chanVars, chatVars, adminVars,
           renameVars, vmVars, recVars, previewVars, ownerVars, authVars,
           infoVars, filterVars, vmsetVars, inviteVars, joinVars>>
notChan == <<sendVars, userVars, turnVars, ipVars, chatVars, adminVars,
             renameVars, vmVars, recVars, previewVars, ownerVars, authVars,
             infoVars, filterVars, vmsetVars, inviteVars, joinVars>>
notChat == <<sendVars, userVars, turnVars, ipVars, chanVars, adminVars,
             renameVars, vmVars, recVars, previewVars, ownerVars, authVars,
             infoVars, filterVars, vmsetVars, inviteVars, joinVars>>
notAdmin == <<sendVars, userVars, turnVars, ipVars, chanVars, chatVars,
              renameVars, vmVars, recVars, previewVars, ownerVars, authVars,
              infoVars, filterVars, vmsetVars, inviteVars, joinVars>>
notRename == <<sendVars, turnVars, ipVars, chanVars, chatVars, adminVars,
               vmVars, recVars, previewVars, ownerVars, authVars, infoVars,
               filterVars, vmsetVars, inviteVars, joinVars>>
notVm == <<sendVars, userVars, turnVars, ipVars, chanVars, chatVars,
           adminVars, renameVars, recVars, previewVars, ownerVars, authVars,
           infoVars, filterVars, vmsetVars, inviteVars, joinVars>>
notRec == <<sendVars, userVars, turnVars, ipVars, chanVars, chatVars,
            adminVars, renameVars, vmVars, previewVars, ownerVars, authVars,
            infoVars, filterVars, vmsetVars, inviteVars, joinVars>>
notPreview == <<sendVars, userVars, turnVars, ipVars, chanVars, chatVars,
                adminVars, renameVars, vmVars, recVars, ownerVars, authVars,
                infoVars, filterVars, vmsetVars, inviteVars, joinVars>>
notOwner == <<sendVars, userVars, turnVars, ipVars, chanVars, chatVars,
              adminVars, renameVars, vmVars, recVars, previewVars, authVars,
              infoVars, filterVars, vmsetVars, inviteVars, joinVars>>
notAuth == <<sendVars, userVars, turnVars, ipVars, chanVars, chatVars,
             adminVars, renameVars, vmVars, recVars, previewVars, ownerVars,
             infoVars, filterVars, vmsetVars, inviteVars, joinVars>>
notInfo == <<sendVars, userVars, turnVars, ipVars, chanVars, chatVars,
             adminVars, renameVars, vmVars, recVars, previewVars, ownerVars,
             authVars, filterVars, vmsetVars, inviteVars, joinVars>>
notFilter == <<sendVars, userVars, turnVars, ipVars, chanVars, chatVars,
               adminVars, renameVars, vmVars, recVars, previewVars, ownerVars,
               authVars, infoVars, vmsetVars, inviteVars, joinVars>>

SendTask(op, msgs, ec) == [op |-> op, msgs |-> msgs, ec |-> ec]

InitSend ==
  /\ send_strand = [s \in Sockets |-> <<>>]
  /\ send_queue  = [s \in Sockets |-> <<>>]
  /\ sending_    = [s \in Sockets |-> FALSE]
  /\ writing     = [s \in Sockets |-> <<>>]
  /\ wire        = [s \in Sockets |-> <<>>]
  /\ sock_closed = [s \in Sockets |-> FALSE]
  /\ write_error = [s \in Sockets |-> FALSE]
  /\ enqueued    = [s \in Sockets |-> <<>>]
  /\ chan_users  = {}
  /\ broadcasts  = <<>>
  /\ next_msg    = 1

\* send_queue_.dispatch of the QueueMessage lambda for message m on every
\* socket of the set to (one socket for a reply, the members for a broadcast)
DispatchQueueMessage(to, m) ==
  /\ send_strand' = [s \in Sockets |->
        IF s \in to THEN Append(send_strand[s], SendTask("queue", <<m>>, FALSE))
        ELSE send_strand[s]]
  /\ enqueued' = [s \in Sockets |->
        IF s \in to THEN Append(enqueued[s], m) ELSE enqueued[s]]

\* SendMessage: one message handed to WriteMessage
SendMessage(s, m) == writing' = [writing EXCEPT ![s] = <<m>>]

\* SendMessageBatch: the whole queue is popped into one write
SendMessageBatch(s, q) ==
  /\ writing' = [writing EXCEPT ![s] = q]
  /\ send_queue' = [send_queue EXCEPT ![s] = <<>>]

\* mutant: the message is written at once, whether a write is running or not
QueueMessageTaskAlwaysSends(s, m) ==
  /\ sending_' = [sending_ EXCEPT ![s] = TRUE]
  /\ SendMessage(s, m)
  /\ UNCHANGED <<send_queue, sock_closed>>

\* mutant: a message that has to wait is put at the front of the queue
QueueMessageTaskPushFront(s, m) ==
  IF sending_[s]
  THEN /\ send_queue' = [send_queue EXCEPT ![s] = <<m>> \o @]
       /\ UNCHANGED <<sending_, writing, sock_closed>>
  ELSE /\ sending_' = [sending_ EXCEPT ![s] = TRUE]
       /\ SendMessage(s, m)
       /\ UNCHANGED <<send_queue, sock_closed>>

\* the lambda of QueueMessage, run on the send strand
QueueMessageTask(s, m) ==
  IF sending_[s]
  THEN /\ send_queue' = [send_queue EXCEPT ![s] = Append(@, m)]
       /\ UNCHANGED <<sending_, writing, sock_closed>>
  ELSE /\ sending_' = [sending_ EXCEPT ![s] = TRUE]
       /\ SendMessage(s, m)
       /\ UNCHANGED <<send_queue, sock_closed>>

\* the lambda of QueueMessageBatch, run on the send strand: the callback
\* pushes ms, then the queue is sent as one batch unless a write is running
QueueMessageBatchTask(s, ms) ==
  LET q == send_queue[s] \o ms IN
  IF q # <<>> /\ ~sending_[s]
  THEN /\ sending_' = [sending_ EXCEPT ![s] = TRUE]
       /\ SendMessageBatch(s, q)
       /\ UNCHANGED sock_closed
  ELSE /\ send_queue' = [send_queue EXCEPT ![s] = q]
       /\ UNCHANGED <<sending_, writing, sock_closed>>

\* mutant: a failed write closes the socket and frees the pipeline
SendMessageCallbackFreesPipeline(s, ec) ==
  IF ec
  THEN /\ sock_closed' = [sock_closed EXCEPT ![s] = TRUE]
       /\ sending_' = [sending_ EXCEPT ![s] = FALSE]
       /\ UNCHANGED <<send_queue, writing>>
  ELSE IF Len(send_queue[s]) = 0
  THEN /\ sending_' = [sending_ EXCEPT ![s] = FALSE]
       /\ UNCHANGED <<send_queue, writing, sock_closed>>
  ELSE IF Len(send_queue[s]) = 1
  THEN /\ SendMessage(s, Head(send_queue[s]))
       /\ send_queue' = [send_queue EXCEPT ![s] = Tail(@)]
       /\ UNCHANGED <<sending_, sock_closed>>
  ELSE /\ SendMessageBatch(s, send_queue[s])
       /\ UNCHANGED <<sending_, sock_closed>>

\* mutant: the single queued message is sent again without being popped
SendMessageCallbackNoPop(s, ec) ==
  IF ec
  THEN /\ sock_closed' = [sock_closed EXCEPT ![s] = TRUE]
       /\ UNCHANGED <<send_queue, sending_, writing>>
  ELSE IF Len(send_queue[s]) = 0
  THEN /\ sending_' = [sending_ EXCEPT ![s] = FALSE]
       /\ UNCHANGED <<send_queue, writing, sock_closed>>
  ELSE IF Len(send_queue[s]) = 1
  THEN /\ SendMessage(s, Head(send_queue[s]))
       /\ UNCHANGED <<send_queue, sending_, sock_closed>>
  ELSE /\ SendMessageBatch(s, send_queue[s])
       /\ UNCHANGED <<sending_, sock_closed>>

\* SendMessageCallback, run on the send strand when a write has ended
SendMessageCallback(s, ec) ==
  IF ec
  THEN /\ sock_closed' = [sock_closed EXCEPT ![s] = TRUE]
       /\ UNCHANGED <<send_queue, sending_, writing>>
  ELSE IF Len(send_queue[s]) = 0
  THEN /\ sending_' = [sending_ EXCEPT ![s] = FALSE]
       /\ UNCHANGED <<send_queue, writing, sock_closed>>
  ELSE IF Len(send_queue[s]) = 1
  THEN /\ SendMessage(s, Head(send_queue[s]))
       /\ send_queue' = [send_queue EXCEPT ![s] = Tail(@)]
       /\ UNCHANGED <<sending_, sock_closed>>
  ELSE /\ SendMessageBatch(s, send_queue[s])
       /\ UNCHANGED <<sending_, sock_closed>>

\* run the task at the head of a socket's send strand
RunSendTask(s) ==
  /\ send_strand[s] # <<>>
  /\ LET task == Head(send_strand[s]) IN
       CASE task.op = "queue"   -> QueueMessageTask(s, task.msgs[1])
         [] task.op = "batch"   -> QueueMessageBatchTask(s, task.msgs)
         [] task.op = "written" -> SendMessageCallback(s, task.ec)
  /\ send_strand' = [send_strand EXCEPT ![s] = Tail(@)]
  /\ UNCHANGED <<wire, write_error, enqueued, chan_users, broadcasts, next_msg>>
  /\ UNCHANGED notSend

\* TSocket::WriteMessage ends: the bytes are on the wire, or the write failed;
\* the wrapped completion handler is posted to the send strand
WriteCompletes(s, ec) ==
  /\ writing[s] # <<>>
  /\ sock_closed[s] => ec
  /\ writing' = [writing EXCEPT ![s] = <<>>]
  /\ wire' = [wire EXCEPT ![s] = IF ec THEN @ ELSE @ \o writing[s]]
  /\ write_error' = [write_error EXCEPT ![s] = @ \/ ec]
  /\ send_strand' = [send_strand EXCEPT ![s] = Append(@, SendTask("written", <<>>, ec))]
  /\ UNCHANGED <<send_queue, sending_, sock_closed, enqueued, chan_users,
                 broadcasts, next_msg>>
  /\ UNCHANGED notSend

\* QueueMessage called by a handler that answers on socket s
QueueMessage(s) ==
  /\ next_msg <= MaxMsgs
  /\ DispatchQueueMessage({s}, next_msg)
  /\ next_msg' = next_msg + 1
  /\ UNCHANGED <<send_queue, sending_, writing, wire, sock_closed, write_error,
                 chan_users, broadcasts>>
  /\ UNCHANGED notSend

\* QueueMessageBatch called for socket s (SendThumbnails): the callback will
\* push n messages (the VM list and the thumbnails: at least one)
QueueMessageBatch(s, n) ==
  /\ next_msg + n - 1 <= MaxMsgs
  /\ LET ms == [i \in 1..n |-> next_msg + i - 1] IN
       /\ send_strand' = [send_strand EXCEPT ![s] = Append(@, SendTask("batch", ms, FALSE))]
       /\ enqueued' = [enqueued EXCEPT ![s] = @ \o ms]
  /\ next_msg' = next_msg + n
  /\ UNCHANGED <<send_queue, sending_, writing, wire, sock_closed, write_error,
                 chan_users, broadcasts>>
  /\ UNCHANGED notSend

\* UserChannel::BroadcastMessage, in the channel's strand: the message is
\* queued on the socket of every member of the set to
BroadcastTo(to) ==
  /\ next_msg <= MaxMsgs
  /\ DispatchQueueMessage(to, next_msg)
  /\ broadcasts' = Append(broadcasts, [msg |-> next_msg, to |-> to])
  /\ next_msg' = next_msg + 1
  /\ UNCHANGED <<send_queue, sending_, writing, wire, sock_closed, write_error>>

\* a chat message reaches the channel (send_message of CHAT_MESSAGE / VM)
BroadcastMessage ==
  /\ BroadcastTo(chan_users)
  /\ UNCHANGED chan_users
  /\ UNCHANGED notSend

\* UserChannel::AddUser: insert, then broadcast the join notification
AddUser(s) ==
  /\ s \notin chan_users
  /\ chan_users' = chan_users \cup {s}
  /\ BroadcastTo(chan_users \cup {s})
  /\ UNCHANGED notSend

\* UserChannel::RemoveUser: erase, then broadcast the leave notification
RemoveUser(s) ==
  /\ s \in chan_users
  /\ chan_users' = chan_users \ {s}
  /\ BroadcastTo(chan_users \ {s})
  /\ UNCHANGED notSend

NextSend ==
  \/ \E s \in Sockets : RunSendTask(s)
  \/ \E s \in Sockets, ec \in BOOLEAN : WriteCompletes(s, ec)
  \/ \E s \in Sockets : QueueMessage(s)
  \/ \E s \in Sockets, n \in 1..MaxBatch : QueueMessageBatch(s, n)
  \/ BroadcastMessage
  \/ \E s \in Sockets : AddUser(s)
  \/ \E s \in Sockets : RemoveUser(s)

\* the messages of the tasks waiting on a send strand, in task order
PendingMsgs(q) == Flatten([i \in 1..Len(q) |-> q[i].msgs])

\* C1: on a socket without write error, what was written, what is being
\* written, the queue and the dispatched tasks are, in this order, exactly the
\* messages in the order QueueMessage / QueueMessageBatch took them: nothing is
\* reordered, duplicated or skipped
SendOrderKept ==
  \A s \in Sockets :
    ~write_error[s] =>
      wire[s] \o writing[s] \o send_queue[s] \o PendingMsgs(send_strand[s])
        = enqueued[s]

\* C1 witness: a single write and then a batch write of two messages that
\* had queued up behind it have both completed without error
SendOrderWitness ==
  \E s \in Sockets :
    /\ ~write_error[s]
    /\ Len(wire[s]) >= 3
    /\ ~sending_[s]

\* C2: two broadcasts of the channel that both went to a member appear on
\* that member's wire in broadcast order
BroadcastOrderKept ==
  \A s \in Sockets : \A i, j \in 1..Len(broadcasts) :
    ( /\ i < j
      /\ s \in broadcasts[i].to /\ s \in broadcasts[j].to
      /\ ~write_error[s]
      /\ Pos(wire[s], broadcasts[j].msg) > 0 )
    => /\ Pos(wire[s], broadcasts[i].msg) > 0
       /\ Pos(wire[s], broadcasts[i].msg) < Pos(wire[s], broadcasts[j].msg)

\* C2 witness: both sockets were members for two broadcasts and both have
\* the later one written
BroadcastOrderWitness ==
  \E i, j \in 1..Len(broadcasts) :
    /\ i < j
    /\ broadcasts[i].to = Sockets /\ broadcasts[j].to = Sockets
    /\ \A s \in Sockets : Pos(wire[s], broadcasts[j].msg) > 0

\* a completion handler with an error code waits on the send strand
ErrorCallbackPending(s) ==
  \E i \in 1..Len(send_strand[s]) :
    send_strand[s][i].op = "written" /\ send_strand[s][i].ec

\* C35: once a write of a socket has ended with an error no write is started
\* on it again: none is outstanding, the pipeline stays marked as sending so
\* that queued and later messages only pile up, and when the completion
\* handler has run the socket is closed
NoWriteAfterError ==
  \A s \in Sockets :
    write_error[s] =>
      /\ writing[s] = <<>>
      /\ sending_[s]
      /\ ~ErrorCallbackPending(s) => sock_closed[s]

\* C35 witness: a socket wrote a message, was closed after a failed write,
\* and a message sits in its queue with no task left to run
NoWriteAfterErrorWitness ==
  \E s \in Sockets :
    /\ write_error[s] /\ sock_closed[s]
    /\ send_strand[s] = <<>>
    /\ Len(send_queue[s]) >= 1
    /\ Len(wire[s]) >= 1

\* C36: a socket has at most one write outstanding (a write is started only
\* when none is outstanding, and marks the pipeline as sending); between the
\* tasks of the send strand a pipeline that is not sending has an empty queue
\* and no write outstanding; and on a socket without write error every
\* message enqueued is written in the end
OneWriteAtATime ==
  /\ [](\A s \in Sockets :
          ~sending_[s] => send_queue[s] = <<>> /\ writing[s] = <<>>)
  /\ [][\A s \in Sockets :
          (writing'[s] # writing[s] /\ writing'[s] # <<>>) =>
            (writing[s] = <<>> /\ sending_'[s])]_vars
  /\ <>[](\A s \in Sockets : write_error[s] \/ wire[s] = enqueued[s])

\* C36 witness: a socket without write error has written every message of
\* the run, all enqueued on it, and its pipeline is idle again
OneWriteWitness ==
  \E s \in Sockets :
    /\ ~write_error[s]
    /\ Len(wire[s]) = MaxMsgs
    /\ wire[s] = enqueued[s]
    /\ ~sending_[s]

(***************************************************************************)
(* USERNAMES AND SESSIONS (HandleMessage CONNECT_TO_CHANNEL and            *)
(* CHANGE_USERNAME, GenerateUsername, SetUserData, OnDisconnect,           *)
(* CreateSession).  The captcha and rate-limit gates of CHANGE_USERNAME    *)
(* are passed: is_captcha_required_ is false and last_username_change_ is  *)
(* never assigned, so the rate limit rejects nothing.                      *)
(***************************************************************************)
\* the sockets of the username specification
Users == {"u1", "u2", "u3"}

\* usernames a client asks for with change-username (all pass ValidateUsername)
ManualNames == {"alice", "Alice"}

\* registered accounts, by the spelling the database returns (correct_username)
Accounts == {"Alice"}

\* guest<N> for the first values of N, in increasing order of N
GuestNames == <<"guest1000", "guest1001", "guest1002", "guest1003",
                "guest1004", "guest1005", "guest1006", "guest1007">>

\* number of client events (connect, rename, login, disconnect) in one run
MaxUserEvents == 4

\* the values guest_rng_ draws, as positions in GuestNames
RngDraws == {1, 2}

\* CaseInsensitiveHasher / CaseInsensitiveComparator compare the lower-cased
\* characters
Lower(n) == IF n = "Alice" THEN "alice" ELSE n

UserTask(op, name) == [op |-> op, name |-> name]
GuestsTask(op, sock, name, cur) == [op |-> op, sock |-> sock, name |-> name, cur |-> cur]
SessionsTask(sock, name) == [sock |-> sock, name |-> name]

InitUser ==
  /\ u_live = [s \in Users |-> TRUE]
  /\ username_ = [s \in Users |-> ""]
  /\ is_logged_in_ = [s \in Users |-> FALSE]
  /\ username_strand = [s \in Users |-> <<>>]
  /\ guests_strand = <<>>
  /\ sessions_strand = <<>>
  /\ guests_ = {}
  /\ sessions_ = {}
  /\ db_session = [a \in Accounts |-> 0]
  /\ account = [s \in Users |-> ""]
  /\ taken_replies = [s \in Users |-> 0]
  /\ user_events = 0

\* the table compares the keys byte by byte
GuestsHasExact(g, n) == \E e \in g : e.name = n

\* guests.find(n) != guests.end()
GuestsHas(g, n) == \E e \in g : Lower(e.name) = Lower(n)

\* guests.insert({n, s}) when the key is free
GuestsInsert(g, n, s) == g \cup {[name |-> n, sock |-> s]}

\* guests.erase(n)
GuestsErase(g, n) == { e \in g : Lower(e.name) # Lower(n) }

\* SetUserData: username_.dispatch of the lambda that swaps the name in
SetUserData(s, n) ==
  username_strand' = [username_strand EXCEPT ![s] = Append(@, UserTask("set", n))]

\* CollabVmSocket::InvalidateSession: its body is empty ("TODO"), the prior
\* session stays open and logged in
InvalidateSession(live, s) == live

\* HandleMessage CONNECT_TO_CHANNEL: the username part
ConnectToChannelUser(s) ==
  /\ u_live[s] /\ user_events < MaxUserEvents
  /\ username_strand' = [username_strand EXCEPT ![s] = Append(@, UserTask("connect", ""))]
  /\ user_events' = user_events + 1
  /\ UNCHANGED <<u_live, username_, is_logged_in_, guests_strand, sessions_strand,
                 guests_, sessions_, db_session, account, taken_replies>>
  /\ UNCHANGED notUser

\* HandleMessage CHANGE_USERNAME
ChangeUsername(s, n) ==
  /\ u_live[s] /\ user_events < MaxUserEvents
  /\ ~is_logged_in_[s]
  /\ username_strand' = [username_strand EXCEPT ![s] = Append(@, UserTask("rename", n))]
  /\ user_events' = user_events + 1
  /\ UNCHANGED <<u_live, username_, is_logged_in_, guests_strand, sessions_strand,
                 guests_, sessions_, db_session, account, taken_replies>>
  /\ UNCHANGED notUser

\* HandleMessage LOGIN_REQUEST with a valid captcha token and password: the
\* captcha verifier and the login strand hand over to CreateSession
LoginRequest(s, a) ==
  /\ u_live[s] /\ user_events < MaxUserEvents
  /\ sessions_strand' = Append(sessions_strand, SessionsTask(s, a))
  /\ user_events' = user_events + 1
  /\ UNCHANGED <<u_live, username_, is_logged_in_, username_strand, guests_strand,
                 guests_, sessions_, db_session, account, taken_replies>>
  /\ UNCHANGED notUser

\* OnDisconnect: the username part
OnDisconnectUser(s) ==
  /\ u_live[s] /\ user_events < MaxUserEvents
  /\ user_events' = user_events + 1
  /\ u_live' = [u_live EXCEPT ![s] = FALSE]
  /\ username_strand' = [username_strand EXCEPT ![s] = Append(@, UserTask("disconnect", ""))]
  /\ UNCHANGED <<username_, is_logged_in_, guests_strand, sessions_strand,
                 guests_, sessions_, db_session, account, taken_replies>>
  /\ UNCHANGED notUser

\* run the task at the head of a socket's username strand
RunUsernameTask(s) ==
  /\ username_strand[s] # <<>>
  /\ LET task == Head(username_strand[s])
         rest == Tail(username_strand[s]) IN
       CASE task.op = "connect" ->
              \* username.empty() ? GenerateUsername : connect_to_channel
              /\ guests_strand' =
                   IF username_[s] = ""
                   THEN Append(guests_strand, GuestsTask("generate", s, "", ""))
                   ELSE guests_strand
              /\ username_strand' = [username_strand EXCEPT ![s] = rest]
              /\ UNCHANGED username_
         [] task.op = "rename" ->
              /\ guests_strand' =
                   IF username_[s] = task.name
                   THEN guests_strand
                   ELSE Append(guests_strand,
                               GuestsTask("rename", s, task.name, username_[s]))
              /\ username_strand' = [username_strand EXCEPT ![s] = rest]
              /\ UNCHANGED username_
         [] task.op = "set" ->
              /\ username_' = [username_ EXCEPT ![s] = task.name]
              /\ username_strand' = [username_strand EXCEPT ![s] = rest]
              /\ UNCHANGED guests_strand
         [] task.op = "disconnect" ->
              \* the name is moved out of the guarded string, which is left
              \* in an unspecified state: empty, or as it was
              /\ guests_strand' =
                   IF username_[s] = ""
                   THEN guests_strand
                   ELSE Append(guests_strand,
                               GuestsTask("erase", s, username_[s], ""))
              /\ username_' \in { [username_ EXCEPT ![s] = ""], username_ }
              /\ username_strand' = [username_strand EXCEPT ![s] = rest]
  /\ UNCHANGED <<u_live, is_logged_in_, sessions_strand, guests_, sessions_,
                 db_session, account, taken_replies, user_events>>
  /\ UNCHANGED notUser

\* GenerateUsername from the drawn number on: the first name not in the table
FirstFree(g, i) ==
  CHOOSE j \in i..Len(GuestNames) :
    /\ ~GuestsHas(g, GuestNames[j])
    /\ \A k \in i..(j - 1) : GuestsHas(g, GuestNames[k])

\* run the task at the head of the guests strand
RunGuestsTask ==
  /\ guests_strand # <<>>
  /\ guests_strand' = Tail(guests_strand)
  /\ LET task == Head(guests_strand) IN
       CASE task.op = "generate" ->
              \E i \in RngDraws :
                LET n == GuestNames[FirstFree(guests_, i)] IN
                /\ guests_' = GuestsInsert(guests_, n, task.sock)
                /\ SetUserData(task.sock, n)
                /\ UNCHANGED taken_replies
         [] task.op = "rename" ->
              IF GuestsHas(guests_, task.name)
              THEN /\ taken_replies' = [taken_replies EXCEPT ![task.sock] = @ + 1]
                   /\ UNCHANGED <<guests_, username_strand>>
              ELSE /\ guests_' = GuestsErase(
                                   GuestsInsert(guests_, task.name, task.sock),
                                   task.cur)
                   /\ SetUserData(task.sock, task.name)
                   /\ UNCHANGED taken_replies
         [] task.op = "erase" ->
              /\ guests_' = GuestsErase(guests_, task.name)
              /\ UNCHANGED <<username_strand, taken_replies>>
  /\ UNCHANGED <<u_live, username_, is_logged_in_, sessions_strand, sessions_,
                 db_session, account, user_events>>
  /\ UNCHANGED notUser

\* Database::CreateSession: the prior session id of the account and a new one
DbCreateSession(a) ==
  [old |-> db_session[a], new |-> Cardinality(sessions_) + 1]

\* run the task at the head of the sessions strand: CreateSession's lambda
RunSessionsTask ==
  /\ sessions_strand # <<>>
  /\ sessions_strand' = Tail(sessions_strand)
  /\ LET task == Head(sessions_strand)
         ids  == DbCreateSession(task.name)
         prior == { e \in sessions_ : e.id = ids.old } IN
       /\ db_session' = [db_session EXCEPT ![task.name] = ids.new]
       /\ is_logged_in_' = [is_logged_in_ EXCEPT ![task.sock] = TRUE]
       /\ account' = [account EXCEPT ![task.sock] = task.name]
       /\ SetUserData(task.sock, task.name)
       /\ sessions_' = sessions_ \cup {[id |-> ids.new, sock |-> task.sock]}
       /\ u_live' = IF prior = {} THEN u_live
                    ELSE InvalidateSession(u_live, (CHOOSE e \in prior : TRUE).sock)
  /\ UNCHANGED <<username_, guests_strand, guests_, taken_replies, user_events>>
  /\ UNCHANGED notUser

NextUser ==
  \/ \E s \in Users : ConnectToChannelUser(s)
  \/ \E s \in Users, n \in ManualNames : ChangeUsername(s, n)
  \/ \E s \in Users, a \in Accounts : LoginRequest(s, a)
  \/ \E s \in Users : OnDisconnectUser(s)
  \/ \E s \in Users : RunUsernameTask(s)
  \/ RunGuestsTask
  \/ RunSessionsTask

\* no task is pending on a username strand, the guests strand or the sessions
\* strand: every session's username_ is the name its last request gave it
UserQuiescent ==
  /\ \A s \in Users : username_strand[s] = <<>>
  /\ guests_strand = <<>>
  /\ sessions_strand = <<>>

\* C3: no two live guest sessions hold usernames that are equal ignoring
\* case; stated for the states where no task is pending, so that a name
\* already released in the table but not yet swapped out of username_ is not
\* counted as held
GuestNamesUnique ==
  \A s, t \in Users :
    ( /\ UserQuiescent
      /\ s # t
      /\ u_live[s] /\ u_live[t]
      /\ ~is_logged_in_[s] /\ ~is_logged_in_[t]
      /\ username_[s] # "" /\ username_[t] # "" )
    => Lower(username_[s]) # Lower(username_[t])

\* C4: no two live sessions are logged in under the same account
OneSessionPerAccount ==
  \A s, t \in Users :
    ( /\ s # t
      /\ u_live[s] /\ u_live[t]
      /\ is_logged_in_[s] /\ is_logged_in_[t] )
    => account[s] # account[t]

\* C11: after a session has disconnected and every task has run, no entry of
\* the guest table and no entry of the session table maps to it
NoTableEntryAfterDisconnect ==
  \A s \in Users :
    (~u_live[s] /\ UserQuiescent) =>
      /\ \A e \in guests_ : e.sock # s
      /\ \A e \in sessions_ : e.sock # s

(***************************************************************************)
(* CHANGE_USERNAME WITH ITS RATE LIMIT (HandleMessage CHANGE_USERNAME      *)
(* 408-457 as a whole: the login gate, the rate limit against the steady    *)
(* clock, the hop to username_ and to guests_).  The sessions have passed   *)
(* the captcha; nobody logs in or disconnects.                              *)
(***************************************************************************)
\* Common::username_change_rate_limit, in ticks of the clock
username_change_rate_limit == 2

\* the clock stops here
MaxUserTime == 2

\* the sessions that send requests; the third stays idle
Renamers == {"u1", "u2"}

\* one received change-username: what the session was when it arrived and
\* whether the handler dispatched it
RenameRequest(sock, name, prev, free, settled, at, ev, passed) ==
  [sock |-> sock, name |-> name, prev |-> prev, free |-> free,
   settled |-> settled, at |-> at, ev |-> ev, passed |-> passed]

\* last_username_change_ is default-constructed: the clock's epoch
InitRename ==
  /\ u_now = 0
  /\ last_username_change_ = [s \in Users |-> 0]
  /\ renames = {}

\* no task of the session is pending on its username_ or on guests_
SessionSettled(s) ==
  /\ username_strand[s] = <<>>
  /\ \A i \in 1..Len(guests_strand) : guests_strand[i].sock # s

\* HandleMessage CHANGE_USERNAME: dropped when logged in or when the clock is
\* less than the rate limit past last_username_change_, else dispatched to
\* username_; last_username_change_ is assigned nowhere
ChangeUsernameRateLimited(s, n) ==
  /\ u_live[s] /\ user_events < MaxUserEvents
  /\ ~is_logged_in_[s]
  /\ LET passed == ~(u_now - last_username_change_[s] < username_change_rate_limit) IN
       /\ username_strand' =
            IF passed
            THEN [username_strand EXCEPT ![s] = Append(@, UserTask("rename", n))]
            ELSE username_strand
       /\ renames' = renames \cup
            { RenameRequest(s, n, username_[s], ~GuestsHas(guests_, n),
                            SessionSettled(s), u_now, user_events + 1, passed) }
  /\ user_events' = user_events + 1
  /\ UNCHANGED <<u_live, username_, is_logged_in_, guests_strand, sessions_strand,
                 guests_, sessions_, db_session, account, taken_replies>>
  /\ UNCHANGED <<u_now, last_username_change_>>
  /\ UNCHANGED notRename

\* std::chrono::steady_clock advances
TickUser ==
  /\ u_now < MaxUserTime
  /\ u_now' = u_now + 1
  /\ UNCHANGED <<last_username_change_, renames>>
  /\ UNCHANGED <<userVars, notRename>>

NextRename ==
  \/ \E s \in Renamers : ConnectToChannelUser(s)
  \/ \E s \in Renamers, n \in ManualNames : ChangeUsernameRateLimited(s, n)
  \/ \E s \in Renamers : RunUsernameTask(s)
  \/ RunGuestsTask
  \/ TickUser

\* two sessions asked for the same name (ignoring case) while it was free in
\* the guest table and while none of their own tasks was pending; these are
\* the only change-username requests and the last two client events
RenameRace(r1, r2) ==
  /\ r1.sock # r2.sock
  /\ Lower(r1.name) = Lower(r2.name)
  /\ r1.passed /\ r2.passed
  /\ r1.free /\ r2.free
  /\ r1.settled /\ r2.settled
  /\ renames = {r1, r2}
  /\ {r1.ev, r2.ev} = {user_events - 1, user_events}

\* w has the name and l was refused and is what it was
RenameWonBy(w, l) ==
  /\ username_[w.sock] = w.name
  /\ { e \in guests_ : Lower(e.name) = Lower(w.name) }
       = { [name |-> w.name, sock |-> w.sock] }
  /\ \A e \in guests_ : e.name # w.prev
  /\ taken_replies[w.sock] = 0
  /\ username_[l.sock] = l.prev
  /\ taken_replies[l.sock] = 1
  /\ l.prev # "" => [name |-> l.prev, sock |-> l.sock] \in guests_

\* C16: when two distinct guest sessions concurrently ask for the same free
\* name, then once every task has run exactly one of them has the name (in
\* username_ and in the guest table) and the other got one username-taken and
\* has its previous name and its previous guest-table entry
RenameRaceOneWinner ==
  \A r1, r2 \in renames :
    (UserQuiescent /\ RenameRace(r1, r2)) =>
      (RenameWonBy(r1, r2) \/ RenameWonBy(r2, r1))

\* the race was run by two sessions that held generated names, for two
\* spellings of the name, and the second to ask won
RenameRaceWitness ==
  \E r1, r2 \in renames :
    /\ UserQuiescent /\ RenameRace(r1, r2)
    /\ r1.ev < r2.ev
    /\ r1.prev # "" /\ r2.prev # ""
    /\ r1.name # r2.name
    /\ RenameWonBy(r2, r1)

\* C17: a change-username that arrives less than the rate limit after the
\* session's previous accepted change (the request that gave the session the
\* name it holds) is dropped by the handler; stated for a request for another
\* spelling than the one held, which the username_ task does not ignore
RenameRateLimited ==
  \A r2 \in renames :
    LET earlier == { r1 \in renames :
                       /\ r1.sock = r2.sock /\ r1.ev < r2.ev
                       /\ r1.passed /\ r1.name = r2.prev } IN
    ( /\ r2.name # r2.prev
      /\ earlier # {}
      /\ \A r1 \in earlier : r2.at - r1.at < username_change_rate_limit )
    => ~r2.passed

(***************************************************************************)
(* TURN CONTROLLER of one VM (HandleMessage TURN_REQUEST, END_TURN,        *)
(* PAUSE_TURN_TIMER, RESUME_TURN_TIMER, the leave_channel of OnDisconnect  *)
(* and of CONNECT_TO_CHANNEL).  TurnController.hpp, UserChannel.hpp and    *)
(* AdminVirtualMachine.hpp are not part of the source at hand: the         *)
(* controller's transitions are those of the specification's section 4.4.  *)
(* The clients have passed the captcha (is_captcha_required_ is false).    *)
(* A request travels virtual_machines_ strand -> VM owner; both are FIFO,  *)
(* so the two hops are one queue here and the timer's expiry interleaves   *)
(* with its tasks.                                                         *)
(***************************************************************************)
\* the sockets of the turn specification
Clients == {"c1", "c2", "c3"}

\* the sockets whose is_admin_ is set
AdminClients == {"c3"}

\* the id of the VM
VmId == 7

\* the VM's turn-time setting, in clock ticks
TurnTime == 2

\* the clock runs from 0 to MaxTime
MaxTime == 3

\* number of client events (requests and disconnects) in one run
MaxTurnEvents == 4

NoClient == ""

TurnState(holder, queue, deadline, paused, remaining) ==
  [holder |-> holder, queue |-> queue, deadline |-> deadline,
   paused |-> paused, remaining |-> remaining]

VmsTask(op, sock, vm, member) == [op |-> op, sock |-> sock, vm |-> vm, member |-> member]

TurnEvent(ev, by, pre, at, member) ==
  [ev |-> ev, by |-> by, pre |-> pre, at |-> at, member |-> member]

IdleTurn == TurnState(NoClient, <<>>, 0, FALSE, 0)

\* the clients are connected to the VM and nobody has asked for a turn
InitTurn ==
  /\ t_live = [s \in Clients |-> TRUE]
  /\ connected_vm_id_ = [s \in Clients |-> VmId]
  /\ vms_strand = <<>>
  /\ channel_users = Clients
  /\ turn_ctl = IdleTurn
  /\ now = 0
  /\ turn_reqs = <<>>
  /\ turn_grants = <<>>
  /\ turn_event = TurnEvent("none", NoClient, IdleTurn, 0, FALSE)
  /\ pause_left = 0
  /\ turn_events = 0

\* the head of the queue becomes holder with a fresh deadline, or the VM idle
NextTurn(t, n) ==
  IF t.queue = <<>> THEN IdleTurn
  ELSE TurnState(Head(t.queue), Tail(t.queue), n + TurnTime, FALSE, 0)

\* mutant: a session that already waits is queued once more
RequestTurnNoCheck(t, s, n) ==
  IF t.holder = NoClient THEN TurnState(s, <<>>, n + TurnTime, FALSE, 0)
  ELSE [t EXCEPT !.queue = Append(@, s)]

\* TurnController::RequestTurn
RequestTurn(t, s, n) ==
  IF t.holder = NoClient THEN TurnState(s, <<>>, n + TurnTime, FALSE, 0)
  ELSE IF s = t.holder \/ s \in Range(t.queue) THEN t
  ELSE [t EXCEPT !.queue = Append(@, s)]

\* TurnController::EndCurrentTurn
EndCurrentTurn(t, s, n) == IF s = t.holder /\ s # NoClient THEN NextTurn(t, n) ELSE t

\* mutant: the successor is taken from the back of the queue
RemoveTurnUserLifo(t, s, n) ==
  IF s = t.holder /\ s # NoClient
  THEN IF t.queue = <<>> THEN IdleTurn
       ELSE TurnState(t.queue[Len(t.queue)], SubSeq(t.queue, 1, Len(t.queue) - 1),
                      n + TurnTime, FALSE, 0)
  ELSE [t EXCEPT !.queue = Without(@, s)]

\* the turn part of UserChannel::RemoveUser: the member is purged from the
\* queue, and its turn, if it holds it, ends
RemoveTurnUser(t, s, n) ==
  IF s = t.holder /\ s # NoClient THEN NextTurn(t, n)
  ELSE [t EXCEPT !.queue = Without(@, s)]

\* TurnController::PauseTurnTimer
PauseTurnTimer(t, n) ==
  IF t.holder # NoClient /\ ~t.paused
  THEN [t EXCEPT !.paused = TRUE, !.remaining = t.deadline - n]
  ELSE t

\* TurnController::ResumeTurnTimer
ResumeTurnTimer(t, n) ==
  IF t.holder # NoClient /\ t.paused
  THEN [t EXCEPT !.paused = FALSE, !.deadline = n + t.remaining, !.remaining = 0]
  ELSE t

\* the deadline timer is armed and has run out
TimerDue(t, n) == t.holder # NoClient /\ ~t.paused /\ n >= t.deadline

\* the history variables after the turn controller went from pre to post
\* through the event ev of client by
TurnHistory(ev, by, pre, post) ==
  LET done    == Len(turn_grants)
      waiting == SubSeq(turn_reqs, done + 1, Len(turn_reqs))
      reqs1   == IF ev = "request" /\ by # pre.holder /\ by \notin Range(pre.queue)
                 THEN Append(turn_reqs, by)
                 ELSE IF ev = "leave" /\ by # pre.holder
                 THEN SubSeq(turn_reqs, 1, done) \o Without(waiting, by)
                 ELSE turn_reqs
  IN
  /\ turn_reqs' = reqs1
  /\ turn_grants' = IF post.holder # pre.holder /\ post.holder # NoClient
                    THEN Append(turn_grants, [who |-> post.holder, why |-> ev])
                    ELSE turn_grants
  /\ turn_event' = TurnEvent(ev, by, pre, now, by \in channel_users)
  /\ pause_left' = IF ev = "pause" /\ pre.holder # NoClient /\ ~pre.paused
                   THEN pre.deadline - now
                   ELSE pause_left

\* a client message arrives while the connection is open
TurnClientEvent(s) ==
  /\ t_live[s]
  /\ turn_events < MaxTurnEvents
  /\ turn_events' = turn_events + 1

\* HandleMessage TURN_REQUEST
TurnRequest(s) ==
  /\ TurnClientEvent(s)
  /\ connected_vm_id_[s] # 0
  /\ vms_strand' = Append(vms_strand, VmsTask("request", s, 0, s \in channel_users))
  /\ UNCHANGED <<t_live, connected_vm_id_, channel_users, turn_ctl, now, turn_reqs,
                 turn_grants, turn_event, pause_left>>
  /\ UNCHANGED notTurn

\* HandleMessage END_TURN
EndTurn(s) ==
  /\ TurnClientEvent(s)
  /\ connected_vm_id_[s] # 0
  /\ vms_strand' = Append(vms_strand,
                          VmsTask("end", s, connected_vm_id_[s], s \in channel_users))
  /\ UNCHANGED <<t_live, connected_vm_id_, channel_users, turn_ctl, now, turn_reqs,
                 turn_grants, turn_event, pause_left>>
  /\ UNCHANGED notTurn

\* mutant: the pause request of any connected client is forwarded
PauseRequestAnyone(s) ==
  /\ TurnClientEvent(s)
  /\ connected_vm_id_[s] # 0
  /\ vms_strand' = Append(vms_strand,
                          VmsTask("pause", s, connected_vm_id_[s], s \in channel_users))
  /\ UNCHANGED <<t_live, connected_vm_id_, channel_users, turn_ctl, now, turn_reqs,
                 turn_grants, turn_event, pause_left>>
  /\ UNCHANGED notTurn

\* HandleMessage PAUSE_TURN_TIMER
PauseRequest(s) ==
  /\ TurnClientEvent(s)
  /\ s \in AdminClients /\ connected_vm_id_[s] # 0
  /\ vms_strand' = Append(vms_strand,
                          VmsTask("pause", s, connected_vm_id_[s], s \in channel_users))
  /\ UNCHANGED <<t_live, connected_vm_id_, channel_users, turn_ctl, now, turn_reqs,
                 turn_grants, turn_event, pause_left>>
  /\ UNCHANGED notTurn

\* HandleMessage RESUME_TURN_TIMER
ResumeRequest(s) ==
  /\ TurnClientEvent(s)
  /\ s \in AdminClients /\ connected_vm_id_[s] # 0
  /\ vms_strand' = Append(vms_strand,
                          VmsTask("resume", s, connected_vm_id_[s], s \in channel_users))
  /\ UNCHANGED <<t_live, connected_vm_id_, channel_users, turn_ctl, now, turn_reqs,
                 turn_grants, turn_event, pause_left>>
  /\ UNCHANGED notTurn

\* the channel task of CONNECT_TO_CHANNEL for the global channel, by a client
\* that is connected to the VM: the client leaves the VM's channel
ConnectToGlobal(s) ==
  /\ TurnClientEvent(s)
  /\ connected_vm_id_[s] # 0
  /\ vms_strand' = Append(vms_strand,
                          VmsTask("leave", s, connected_vm_id_[s], s \in channel_users))
  /\ connected_vm_id_' = [connected_vm_id_ EXCEPT ![s] = 0]
  /\ UNCHANGED <<t_live, channel_users, turn_ctl, now, turn_reqs, turn_grants,
                 turn_event, pause_left>>
  /\ UNCHANGED notTurn

\* OnDisconnect: the leave_channel part
OnDisconnectTurn(s) ==
  /\ TurnClientEvent(s)
  /\ t_live' = [t_live EXCEPT ![s] = FALSE]
  /\ vms_strand' = IF connected_vm_id_[s] # 0
                   THEN Append(vms_strand,
                               VmsTask("leave", s, connected_vm_id_[s], s \in channel_users))
                   ELSE vms_strand
  /\ UNCHANGED <<connected_vm_id_, channel_users, turn_ctl, now, turn_reqs,
                 turn_grants, turn_event, pause_left>>
  /\ UNCHANGED notTurn

\* the VM a task works on: TURN_REQUEST reads connected_vm_id_ when the task
\* runs, the other handlers capture it when the message arrives
TaskVm(task) == IF task.op = "request" THEN connected_vm_id_[task.sock] ELSE task.vm

\* run the task at the head of the virtual_machines_ strand
RunVmsTask ==
  /\ vms_strand # <<>>
  /\ vms_strand' = Tail(vms_strand)
  /\ LET task == Head(vms_strand)
         s    == task.sock
         post == IF TaskVm(task) # VmId THEN turn_ctl   \* GetAdminVirtualMachine fails
                 ELSE CASE task.op = "request" -> RequestTurn(turn_ctl, s, now)
                        [] task.op = "end"     -> EndCurrentTurn(turn_ctl, s, now)
                        [] task.op = "pause"   -> PauseTurnTimer(turn_ctl, now)
                        [] task.op = "resume"  -> ResumeTurnTimer(turn_ctl, now)
                        [] task.op = "leave"   -> RemoveTurnUser(turn_ctl, s, now)
     IN
     /\ turn_ctl' = post
     /\ channel_users' = IF task.op = "leave" /\ TaskVm(task) = VmId
                         THEN channel_users \ {s} ELSE channel_users
     /\ IF TaskVm(task) = VmId
        THEN TurnHistory(task.op, s, turn_ctl, post)
        ELSE UNCHANGED <<turn_reqs, turn_grants, turn_event, pause_left>>
  /\ UNCHANGED <<t_live, connected_vm_id_, now, turn_events>>
  /\ UNCHANGED notTurn

\* the deadline of the current turn elapses
TurnTimerExpires ==
  /\ TimerDue(turn_ctl, now)
  /\ turn_ctl' = NextTurn(turn_ctl, now)
  /\ TurnHistory("expire", turn_ctl.holder, turn_ctl, NextTurn(turn_ctl, now))
  /\ UNCHANGED <<t_live, connected_vm_id_, vms_strand, channel_users, now, turn_events>>
  /\ UNCHANGED notTurn

\* the clock advances; an armed timer fires no later than its deadline
Tick ==
  /\ now < MaxTime
  /\ ~TimerDue(turn_ctl, now)
  /\ now' = now + 1
  /\ UNCHANGED <<t_live, connected_vm_id_, vms_strand, channel_users, turn_ctl,
                 turn_reqs, turn_grants, turn_event, pause_left, turn_events>>
  /\ UNCHANGED notTurn

NextTurnSpec ==
  \/ \E s \in Clients : TurnRequest(s)
  \/ \E s \in Clients : EndTurn(s)
  \/ \E s \in Clients : PauseRequest(s)
  \/ \E s \in Clients : ResumeRequest(s)
  \/ \E s \in Clients : ConnectToGlobal(s)
  \/ \E s \in Clients : OnDisconnectTurn(s)
  \/ RunVmsTask
  \/ TurnTimerExpires
  \/ Tick

\* C5: the queue holds no session twice and never the holder, and an idle VM
\* has an empty queue (the holder is one value: there is at most one)
TurnStateWellFormed ==
  /\ NoDup(turn_ctl.queue)
  /\ turn_ctl.holder \notin Range(turn_ctl.queue)
  /\ turn_ctl.holder = NoClient => turn_ctl.queue = <<>>
  /\ turn_ctl.holder \in Clients \cup {NoClient}

\* C5 witness: a session that was already waiting asked again while another
\* session waited too
TurnStateWitness ==
  /\ turn_event.ev = "request"
  /\ turn_event.by \in Range(turn_event.pre.queue)
  /\ Len(turn_ctl.queue) >= 2

\* the last event ended the holder's turn: its deadline ran out, it ended the
\* turn itself, or it left the channel
HolderGone ==
  \/ turn_event.ev = "expire"
  \/ /\ turn_event.ev \in {"end", "leave"}
     /\ turn_event.by = turn_event.pre.holder
     /\ turn_event.by # NoClient

\* C6: the turn is given in the order of the accepted requests, and when the
\* holder's turn ends the head of the queue holds the turn with a fresh
\* deadline, or the VM is idle if nobody waited
TurnsInRequestOrder ==
  /\ turn_reqs = [i \in 1..Len(turn_grants) |-> turn_grants[i].who] \o turn_ctl.queue
  /\ HolderGone =>
       IF turn_event.pre.queue = <<>>
       THEN turn_ctl = IdleTurn
       ELSE /\ turn_ctl.holder = Head(turn_event.pre.queue)
            /\ turn_ctl.queue = Tail(turn_event.pre.queue)
            /\ turn_ctl.deadline = turn_event.at + TurnTime
            /\ ~turn_ctl.paused

\* C6 witness: c1 held the turn, c2 and c3 asked in this order, c1
\* disconnected and c2 held the turn, its deadline ran out and c3 holds the
\* turn with nobody waiting
TurnsScenario ==
  /\ turn_grants = << [who |-> "c1", why |-> "request"],
                      [who |-> "c2", why |-> "leave"],
                      [who |-> "c3", why |-> "expire"] >>
  /\ ~t_live["c1"]
  /\ turn_ctl.holder = "c3" /\ turn_ctl.queue = <<>>

\* C7: a deadline never runs out while the timer is paused; a resume sets the
\* deadline to now plus what was left when the timer was paused; and every
\* pause or resume, dispatched or applied, is that of an admin connected to
\* the VM
PauseKeepsTurn ==
  /\ turn_event.ev = "expire" => ~turn_event.pre.paused
  /\ (turn_event.ev = "resume" /\ turn_event.pre.paused) =>
       /\ turn_ctl.holder = turn_event.pre.holder
       /\ ~turn_ctl.paused
       /\ turn_ctl.deadline = turn_event.at + pause_left
  /\ turn_event.ev \in {"pause", "resume"} =>
       turn_event.by \in AdminClients /\ turn_event.member
  /\ \A i \in 1..Len(vms_strand) :
       vms_strand[i].op \in {"pause", "resume"} =>
         /\ vms_strand[i].sock \in AdminClients
         /\ vms_strand[i].vm = VmId
         /\ vms_strand[i].member

\* C7 witness: the timer was paused one tick before the deadline and resumed
\* later: the holder is the same and has one tick left
PauseWitness ==
  /\ turn_event.ev = "resume" /\ turn_event.pre.paused
  /\ pause_left = 1
  /\ turn_event.at >= TurnTime
  /\ turn_ctl.deadline = turn_event.at + 1

(***************************************************************************)
(* IP ACCOUNTING (OnPreConnect, GetIPData, the ip_data_ part of            *)
(* OnDisconnect, SERVER_CONFIG_MODIFICATIONS).  A pre-connect hops from    *)
(* the address map to the settings to the address's IPData; each owner     *)
(* runs its tasks one at a time in the order of their dispatch.            *)
(* TSocket is not part of the source at hand; whether the Close() of a     *)
(* refused socket is followed by OnDisconnect is left open, both outcomes  *)
(* are in the model.                                                       *)
(***************************************************************************)
\* the connections of the IP specification
Conns == {"x", "y", "z", "w"}

\* the remote addresses
Ips == {"ip1", "ip2"}

\* the remote address of a connection
GetIpAddress(s) == IF s = "w" THEN "ip2" ELSE "ip1"

\* the values of the MAX_CONNECTIONS setting are 1..MaxConnections
MaxConnections == 2

\* number of changes of the settings in one run
MaxSettingChanges == 1

NoIp == ""

IpTask(op, sock, enabled, max) == [op |-> op, sock |-> sock, enabled |-> enabled, max |-> max]

\* the settings are those of the database; nobody has connected yet
InitIp ==
  /\ ip_phase = [s \in Conns |-> "new"]
  /\ ip_data_ = [s \in Conns |-> NoIp]
  /\ ip_map = {}
  /\ connections = [i \in Ips |-> 0]
  /\ max_connections_enabled \in BOOLEAN
  /\ max_connections \in 1..MaxConnections
  /\ ip_map_strand = <<>>
  /\ settings_strand = <<>>
  /\ ip_strand = [i \in Ips |-> <<>>]
  /\ settings_stable = TRUE
  /\ refused_count = [s \in Conns |-> 0]
  /\ setting_changes = 0

\* CollabVmSocket::OnPreConnect: look the address up
OnPreConnect(s) ==
  /\ ip_phase[s] = "new"
  /\ ip_phase' = [ip_phase EXCEPT ![s] = "pre"]
  /\ ip_map_strand' = Append(ip_map_strand, s)
  /\ UNCHANGED <<ip_data_, ip_map, connections, max_connections_enabled, max_connections,
                 settings_strand, ip_strand, settings_stable, refused_count,
                 setting_changes>>
  /\ UNCHANGED notIp

\* GetIPData's task and the callback of OnPreConnect it calls
RunIpMapTask ==
  /\ ip_map_strand # <<>>
  /\ LET s == Head(ip_map_strand) IN
     /\ ip_map' = ip_map \cup {GetIpAddress(s)}
     /\ ip_data_' = [ip_data_ EXCEPT ![s] = GetIpAddress(s)]
     /\ settings_strand' = Append(settings_strand, IpTask("preconnect", s, FALSE, 0))
  /\ ip_map_strand' = Tail(ip_map_strand)
  /\ UNCHANGED <<ip_phase, connections, max_connections_enabled, max_connections,
                 ip_strand, settings_stable, refused_count, setting_changes>>
  /\ UNCHANGED notIp

\* HandleMessage SERVER_CONFIG_MODIFICATIONS of an admin
ServerConfigModifications(e, m) ==
  /\ setting_changes < MaxSettingChanges
  /\ setting_changes' = setting_changes + 1
  /\ settings_strand' = Append(settings_strand, IpTask("update", "", e, m))
  /\ settings_stable' = FALSE
  /\ UNCHANGED <<ip_phase, ip_data_, ip_map, connections, max_connections_enabled,
                 max_connections, ip_map_strand, ip_strand, refused_count>>
  /\ UNCHANGED notIp

\* run the task at the head of the settings_ strand
RunSettingsTask ==
  /\ settings_strand # <<>>
  /\ settings_strand' = Tail(settings_strand)
  /\ LET task == Head(settings_strand) IN
     IF task.op = "update"
     THEN /\ max_connections_enabled' = task.enabled
          /\ max_connections' = task.max
          /\ UNCHANGED ip_strand
     ELSE /\ ip_strand' = [ip_strand EXCEPT ![ip_data_[task.sock]] =
               Append(@, IpTask("count", task.sock, max_connections_enabled,
                                max_connections))]
          /\ UNCHANGED <<max_connections_enabled, max_connections>>
  /\ UNCHANGED <<ip_phase, ip_data_, ip_map, connections, ip_map_strand,
                 settings_stable, refused_count, setting_changes>>
  /\ UNCHANGED notIp

\* mutant: the counter is compared before it is incremented
PreConnectIpTaskPostIncrement(i, task) ==
  LET s == task.sock IN
  IF task.enabled
  THEN /\ connections' = [connections EXCEPT ![i] = @ + 1]
       /\ IF connections[i] > task.max
          THEN /\ ip_phase' = [ip_phase EXCEPT ![s] = "refused"]
               /\ refused_count' = [refused_count EXCEPT ![s] = connections[i] + 1]
          ELSE /\ ip_phase' = [ip_phase EXCEPT ![s] = "accepted"]
               /\ UNCHANGED refused_count
  ELSE /\ ip_phase' = [ip_phase EXCEPT ![s] = "accepted"]
       /\ UNCHANGED <<connections, refused_count>>

\* the last task of OnPreConnect, run by the address's IPData:
\* max_connections_enabled && ++connections > max_connections
PreConnectIpTask(i, task) ==
  LET s == task.sock IN
  IF task.enabled
  THEN /\ connections' = [connections EXCEPT ![i] = @ + 1]
       /\ IF connections[i] + 1 > task.max
          THEN /\ ip_phase' = [ip_phase EXCEPT ![s] = "refused"]    \* Close()
               /\ refused_count' = [refused_count EXCEPT ![s] = connections[i] + 1]
          ELSE /\ ip_phase' = [ip_phase EXCEPT ![s] = "accepted"]   \* TSocket::OnPreConnect()
               /\ UNCHANGED refused_count
  ELSE /\ ip_phase' = [ip_phase EXCEPT ![s] = "accepted"]
       /\ UNCHANGED <<connections, refused_count>>

\* the task of OnDisconnect, run by the address's IPData
DisconnectIpTask(i) ==
  /\ connections' = [connections EXCEPT ![i] = IF @ > 0 THEN @ - 1 ELSE @]
  /\ UNCHANGED <<ip_phase, refused_count>>

\* run the task at the head of the strand of an address's IPData
RunIpTask(i) ==
  /\ ip_strand[i] # <<>>
  /\ ip_strand' = [ip_strand EXCEPT ![i] = Tail(@)]
  /\ IF Head(ip_strand[i]).op = "count"
     THEN PreConnectIpTask(i, Head(ip_strand[i]))
     ELSE DisconnectIpTask(i)
  /\ UNCHANGED <<ip_data_, ip_map, max_connections_enabled, max_connections,
                 ip_map_strand, settings_strand, settings_stable, setting_changes>>
  /\ UNCHANGED notIp

\* CollabVmSocket::OnDisconnect of an accepted connection: the ip_data_ part
OnDisconnectIp(s) ==
  /\ ip_phase[s] = "accepted"
  /\ ip_phase' = [ip_phase EXCEPT ![s] = "left"]
  /\ ip_strand' = IF ip_data_[s] # NoIp
                  THEN [ip_strand EXCEPT ![ip_data_[s]] = Append(@, IpTask("leave", s, FALSE, 0))]
                  ELSE ip_strand
  /\ UNCHANGED <<ip_data_, ip_map, connections, max_connections_enabled, max_connections,
                 ip_map_strand, settings_strand, settings_stable, refused_count,
                 setting_changes>>
  /\ UNCHANGED notIp

\* TSocket::Close of a refused connection, followed by OnDisconnect or not
CloseRefused(s, disconnects) ==
  /\ ip_phase[s] = "refused"
  /\ ip_phase' = [ip_phase EXCEPT ![s] = "dropped"]
  /\ ip_strand' = IF disconnects
                  THEN [ip_strand EXCEPT ![ip_data_[s]] = Append(@, IpTask("leave", s, FALSE, 0))]
                  ELSE ip_strand
  /\ UNCHANGED <<ip_data_, ip_map, connections, max_connections_enabled, max_connections,
                 ip_map_strand, settings_strand, settings_stable, refused_count,
                 setting_changes>>
  /\ UNCHANGED notIp

NextIp ==
  \/ \E s \in Conns : OnPreConnect(s)
  \/ RunIpMapTask
  \/ \E e \in BOOLEAN, m \in 1..MaxConnections : ServerConfigModifications(e, m)
  \/ RunSettingsTask
  \/ \E i \in Ips : RunIpTask(i)
  \/ \E s \in Conns : OnDisconnectIp(s)
  \/ \E s \in Conns, d \in BOOLEAN : CloseRefused(s, d)

\* the executions in which nobody changes the settings
NextIpStable ==
  \/ \E s \in Conns : OnPreConnect(s)
  \/ RunIpMapTask
  \/ RunSettingsTask
  \/ \E i \in Ips : RunIpTask(i)
  \/ \E s \in Conns : OnDisconnectIp(s)
  \/ \E s \in Conns, d \in BOOLEAN : CloseRefused(s, d)

\* the live sessions of an address: accepted and not yet disconnected
LiveFrom(i) == {s \in Conns : GetIpAddress(s) = i /\ ip_phase[s] = "accepted"}

\* no IP-accounting task is pending, no pre-connect and no close is under way
IpQuiescent ==
  /\ ip_map_strand = <<>>
  /\ settings_strand = <<>>
  /\ \A i \in Ips : ip_strand[i] = <<>>
  /\ \A s \in Conns : ip_phase[s] \notin {"pre", "refused"}

\* C8: whenever no IP-accounting task is pending, the counter of every
\* address equals the number of its live sessions
CounterEqualsLive ==
  IpQuiescent => \A i \in Ips : connections[i] = Cardinality(LiveFrom(i))

Peers == {"p", "q"}

\* the sockets whose is_admin_ is set
AdminPeers == {"p"}

\* the sockets whose is_captcha_required_ is set: OnConnect read the setting
\* CAPTCHA_REQUIRED as true for them, and they have not solved the captcha
CaptchaPeers == {"q"}

global_channel_id == 0

\* the ids of the VMs a socket can connect to
ChannelVmIds == {VmId, VmId + 1}

\* the channels: the global chat room and the channels of the VMs
Channels == {global_channel_id} \cup ChannelVmIds

\* number of client events (requests and disconnects) in one run
MaxChanEvents == 4

ChanTask(op, sock, id) == [op |-> op, sock |-> sock, id |-> id]

\* std::find and erase: the first occurrence is removed
EraseFirst(q, x) ==
  IF x \notin Range(q) THEN q
  ELSE LET i == CHOOSE k \in 1..Len(q) : q[k] = x /\ \A j \in 1..(k - 1) : q[j] # x
       IN SubSeq(q, 1, i - 1) \o SubSeq(q, i + 1, Len(q))

\* the sockets are connected and have sent nothing yet
InitChan ==
  /\ c_live = [s \in Peers |-> TRUE]
  /\ c_has_username = [s \in Peers |-> FALSE]
  /\ c_connected_vm_id_ = [s \in Peers |-> 0]
  /\ is_in_global_chat_ = [s \in Peers |-> FALSE]
  /\ is_viewing_vm_list_ = [s \in Peers |-> FALSE]
  /\ is_viewing_server_config = [s \in Peers |-> FALSE]
  /\ c_username_strand = [s \in Peers |-> <<>>]
  /\ c_guests_strand = <<>>
  /\ c_vms_strand = <<>>
  /\ channel_strand = [c \in Channels |-> <<>>]
  /\ members = [c \in Channels |-> {}]
  /\ vm_list_viewers_ = <<>>
  /\ admin_vm_list_viewers_ = <<>>
  /\ chan_events = 0

\* a client message arrives while the connection is open
ChanClientEvent(s) ==
  /\ c_live[s]
  /\ chan_events < MaxChanEvents
  /\ chan_events' = chan_events + 1

\* CollabVmSocket::LeaveVmList: the tasks it dispatches to virtual_machines_
LeaveVmList(s) ==
  IF is_viewing_vm_list_[s] THEN <<ChanTask("remove_viewer", s, 0)>> ELSE <<>>

\* CollabVmSocket::LeaveServerConfig: the tasks it dispatches
LeaveServerConfig(s) ==
  IF is_viewing_server_config[s] THEN <<ChanTask("remove_admin", s, 0)>> ELSE <<>>

\* HandleMessage CONNECT_TO_CHANNEL
ConnectToChannel(s, id) ==
  /\ ChanClientEvent(s)
  /\ c_username_strand' = [c_username_strand EXCEPT ![s] = Append(@, ChanTask("connect", s, id))]
  /\ UNCHANGED <<c_live, c_has_username, c_connected_vm_id_, is_in_global_chat_,
                 is_viewing_vm_list_, is_viewing_server_config, c_guests_strand,
                 c_vms_strand, channel_strand, members, vm_list_viewers_,
                 admin_vm_list_viewers_>>
  /\ UNCHANGED notChan

\* HandleMessage VM_LIST_REQUEST
VmListRequest(s) ==
  /\ ChanClientEvent(s)
  /\ c_vms_strand' = Append(c_vms_strand, ChanTask("vm_list", s, 0))
  /\ UNCHANGED <<c_live, c_has_username, c_connected_vm_id_, is_in_global_chat_,
                 is_viewing_vm_list_, is_viewing_server_config, c_username_strand,
                 c_guests_strand, channel_strand, members, vm_list_viewers_,
                 admin_vm_list_viewers_>>
  /\ UNCHANGED notChan

\* HandleMessage SERVER_CONFIG_REQUEST
ServerConfigRequest(s) ==
  /\ ChanClientEvent(s)
  /\ s \in AdminPeers
  /\ is_viewing_server_config' = [is_viewing_server_config EXCEPT ![s] = TRUE]
  /\ c_vms_strand' = IF is_viewing_server_config[s] THEN c_vms_strand
                     ELSE Append(c_vms_strand, ChanTask("add_admin", s, 0))
  /\ UNCHANGED <<c_live, c_has_username, c_connected_vm_id_, is_in_global_chat_,
                 is_viewing_vm_list_, c_username_strand, c_guests_strand,
                 channel_strand, members, vm_list_viewers_, admin_vm_list_viewers_>>
  /\ UNCHANGED notChan

\* CollabVmSocket::OnDisconnect: LeaveServerConfig, LeaveVmList, leave_channel
\* for the connected VM and for the global chat
OnDisconnectChan(s) ==
  /\ ChanClientEvent(s)
  /\ c_live' = [c_live EXCEPT ![s] = FALSE]
  /\ is_viewing_server_config' = [is_viewing_server_config EXCEPT ![s] = FALSE]
  /\ is_viewing_vm_list_' = [is_viewing_vm_list_ EXCEPT ![s] = FALSE]
  /\ c_vms_strand' = c_vms_strand \o LeaveServerConfig(s) \o LeaveVmList(s) \o
                     (IF c_connected_vm_id_[s] # 0
                      THEN <<ChanTask("leave", s, c_connected_vm_id_[s])>> ELSE <<>>)
  /\ channel_strand' = IF is_in_global_chat_[s]
                       THEN [channel_strand EXCEPT ![global_channel_id] =
                               Append(@, ChanTask("remove", s, global_channel_id))]
                       ELSE channel_strand
  /\ UNCHANGED <<c_has_username, c_connected_vm_id_, is_in_global_chat_,
                 c_username_strand, c_guests_strand, members, vm_list_viewers_,
                 admin_vm_list_viewers_>>
  /\ UNCHANGED notChan

\* the lambda connect_to_channel(username) of CONNECT_TO_CHANNEL: the next
\* hop is the global chat room or virtual_machines_
ConnectHop(s, id) ==
  IF id = global_channel_id
  THEN /\ is_in_global_chat_' = [is_in_global_chat_ EXCEPT ![s] = TRUE]
       /\ channel_strand' = IF is_in_global_chat_[s] THEN channel_strand
                            ELSE [channel_strand EXCEPT ![id] = Append(@, ChanTask("connect", s, id))]
       /\ UNCHANGED c_vms_strand
  ELSE /\ c_vms_strand' = Append(c_vms_strand, ChanTask("connect", s, id))
       /\ UNCHANGED <<is_in_global_chat_, channel_strand>>

\* run the task at the head of a socket's username_ strand
RunPeerUsernameTask(s) ==
  /\ c_username_strand[s] # <<>>
  /\ LET task == Head(c_username_strand[s]) IN
     IF task.op = "set"                                 \* SetUserData
     THEN /\ c_has_username' = [c_has_username EXCEPT ![s] = TRUE]
          /\ c_username_strand' = [c_username_strand EXCEPT ![s] = Tail(@)]
          /\ UNCHANGED <<c_guests_strand, c_vms_strand, channel_strand, is_in_global_chat_>>
     ELSE IF ~c_has_username[s]                         \* GenerateUsername
     THEN /\ c_guests_strand' = Append(c_guests_strand, task)
          /\ c_username_strand' = [c_username_strand EXCEPT ![s] = Tail(@)]
          /\ UNCHANGED <<c_has_username, c_vms_strand, channel_strand, is_in_global_chat_>>
     ELSE /\ ConnectHop(s, task.id)
          /\ c_username_strand' = [c_username_strand EXCEPT ![s] = Tail(@)]
          /\ UNCHANGED <<c_has_username, c_guests_strand>>
  /\ UNCHANGED <<c_live, c_connected_vm_id_, is_viewing_vm_list_, is_viewing_server_config,
                 members, vm_list_viewers_, admin_vm_list_viewers_, chan_events>>
  /\ UNCHANGED notChan

\* GenerateUsername's task on guests_: SetUserData, then the continuation
RunPeerGuestsTask ==
  /\ c_guests_strand # <<>>
  /\ c_guests_strand' = Tail(c_guests_strand)
  /\ LET task == Head(c_guests_strand) IN
     /\ c_username_strand' = [c_username_strand EXCEPT ![task.sock] =
                                Append(@, ChanTask("set", task.sock, 0))]
     /\ ConnectHop(task.sock, task.id)
  /\ UNCHANGED <<c_live, c_has_username, c_connected_vm_id_, is_viewing_vm_list_,
                 is_viewing_server_config, members, vm_list_viewers_,
                 admin_vm_list_viewers_, chan_events>>
  /\ UNCHANGED notChan

\* run the task at the head of the virtual_machines_ strand
RunPeerVmsTask ==
  /\ c_vms_strand # <<>>
  /\ c_vms_strand' = Tail(c_vms_strand)
  /\ LET task == Head(c_vms_strand)
         s    == task.sock
     IN
     /\ is_viewing_vm_list_' =
          IF task.op = "vm_list" THEN [is_viewing_vm_list_ EXCEPT ![s] = TRUE]
          ELSE is_viewing_vm_list_
     /\ vm_list_viewers_' =
          CASE task.op = "vm_list" /\ ~is_viewing_vm_list_[s] -> Append(vm_list_viewers_, s)
            [] task.op = "remove_viewer" -> EraseFirst(vm_list_viewers_, s)
            [] OTHER -> vm_list_viewers_
     /\ admin_vm_list_viewers_' =
          CASE task.op = "add_admin" -> Append(admin_vm_list_viewers_, s)
            [] task.op = "remove_admin" -> EraseFirst(admin_vm_list_viewers_, s)
            [] OTHER -> admin_vm_list_viewers_
     /\ channel_strand' =
          CASE task.op = "connect" ->
                 [channel_strand EXCEPT ![task.id] = Append(@, ChanTask("connect", s, task.id))]
            [] task.op = "leave" ->
                 [channel_strand EXCEPT ![task.id] = Append(@, ChanTask("remove", s, task.id))]
            [] OTHER -> channel_strand
  /\ UNCHANGED <<c_live, c_has_username, c_connected_vm_id_, is_in_global_chat_,
                 is_viewing_server_config, c_username_strand, c_guests_strand,
                 members, chan_events>>
  /\ UNCHANGED notChan

\* run the task at the head of a channel's strand: the inner lambda
\* connect_to_channel(channel) or leave_channel
RunChannelTask(c) ==
  /\ channel_strand[c] # <<>>
  /\ channel_strand' = [channel_strand EXCEPT ![c] = Tail(@)]
  /\ LET task == Head(channel_strand[c])
         s    == task.sock
     IN
     IF task.op = "connect"
     THEN /\ is_viewing_vm_list_' = [is_viewing_vm_list_ EXCEPT ![s] = FALSE]
          /\ c_vms_strand' = c_vms_strand \o LeaveVmList(s) \o
                             (IF c_connected_vm_id_[s] # 0
                              THEN <<ChanTask("leave", s, c_connected_vm_id_[s])>>
                              ELSE <<>>)
          /\ c_connected_vm_id_' = [c_connected_vm_id_ EXCEPT ![s] = c]
          /\ members' = [members EXCEPT ![c] = @ \cup {s}]
     ELSE /\ members' = [members EXCEPT ![c] = @ \ {s}]
          /\ UNCHANGED <<is_viewing_vm_list_, c_vms_strand, c_connected_vm_id_>>
  /\ UNCHANGED <<c_live, c_has_username, is_in_global_chat_, is_viewing_server_config,
                 c_username_strand, c_guests_strand, vm_list_viewers_,
                 admin_vm_list_viewers_, chan_events>>
  /\ UNCHANGED notChan

NextChan ==
  \/ \E s \in Peers, id \in Channels : ConnectToChannel(s, id)
  \/ \E s \in Peers : VmListRequest(s)
  \/ \E s \in Peers : ServerConfigRequest(s)
  \/ \E s \in Peers : OnDisconnectChan(s)
  \/ \E s \in Peers : RunPeerUsernameTask(s)
  \/ RunPeerGuestsTask
  \/ RunPeerVmsTask
  \/ \E c \in Channels : RunChannelTask(c)

\* every task has run
ChanQuiescent ==
  /\ \A s \in Peers : c_username_strand[s] = <<>>
  /\ c_guests_strand = <<>>
  /\ c_vms_strand = <<>>
  /\ \A c \in Channels : channel_strand[c] = <<>>

\* C10: after a session has disconnected and every task has run, the session
\* is a member of no channel and in neither viewer list
NoDanglingTarget ==
  \A s \in Peers :
    (~c_live[s] /\ ChanQuiescent) =>
      /\ \A c \in Channels : s \notin members[c]
      /\ s \notin Range(vm_list_viewers_)
      /\ s \notin Range(admin_vm_list_viewers_)

\* C37: whenever no task is pending, a live session whose connected_vm_id_
\* is a VM v is a member of the channel of v and of the channel of no other
\* VM
MemberOfConnectedVm ==
  \A s \in Peers :
    (c_live[s] /\ ChanQuiescent /\ c_connected_vm_id_[s] # global_channel_id) =>
      /\ s \in members[c_connected_vm_id_[s]]
      /\ \A c \in ChannelVmIds \ {c_connected_vm_id_[s]} : s \notin members[c]

\* C14: a session whose captcha-required flag is set becomes a member of
\* no channel: its connect-to-channel is dropped
CaptchaGateDrops ==
  \A s \in CaptchaPeers : \A c \in Channels : s \notin members[c]

(***************************************************************************)
(* DIRECT CHATS (HandleMessage CHAT_MESSAGE, destinations NEW_DIRECT and     *)
(* DIRECT).                                                                *)
(* The senders have passed the captcha and the rate limit, have a          *)
(* username, and the recipient's name is in guests_; the hops through      *)
(* username_ and guests_ keep the order of a sender's requests.            *)
(***************************************************************************)
\* the sockets of the direct-chat specification
Chatters == {"A", "B", "C"}

\* sockets that set up chats with B earlier and stay silent here
Others == <<"o1", "o2", "o3", "o4", "o5", "o6", "o7", "o8", "o9", "o10">>

\* chat_rooms.size() >= 10
chat_rooms_limit == 10

\* number of new-direct requests in one run
MaxChatEvents == 3

Room(id, peer, peer_id) == [id |-> id, peer |-> peer, peer_id |-> peer_id]

ChatTask(op, from, to, sender_id, recipient_id) ==
  [op |-> op, from |-> from, to |-> to, sender_id |-> sender_id,
   recipient_id |-> recipient_id]

ChatReply(kind, id) == [kind |-> kind, id |-> id]

\* the table of a socket that set up chat_rooms_limit chats, all completed
FullTable == { Room(i, Others[i], 1) : i \in 1..chat_rooms_limit }

\* a table with room for one more chat
NearFullTable == { r \in FullTable : r.id < chat_rooms_limit }

\* nobody of the chatters has a chat yet, but B has one of the tables
InitChatWith(tables) ==
  /\ chat_rooms_ \in { [s \in Chatters |-> IF s = "B" THEN tb ELSE {}] : tb \in tables }
  /\ chat_rooms_id_ = [s \in Chatters |-> Cardinality(chat_rooms_[s]) + 1]
  /\ chat_strand = [s \in Chatters |-> <<>>]
  /\ chat_replies = [s \in Chatters |-> <<>>]
  /\ chat_reqs = <<>>
  /\ chat_event = [kind |-> "none", at |-> "", task |-> ChatTask("", "", "", 0, 0),
                   pre |-> chat_rooms_]

\* nobody of the chatters has a chat yet, but B may have a full table
InitChat == InitChatWith({{}, FullTable})

\* std::find_if over the rows: those whose socket is peer
RoomsWith(rooms, peer) == { r \in rooms : r.peer = peer }

\* chat_rooms.find(id)
RoomsAt(rooms, id) == { r \in rooms : r.id = id }

\* mutant: the rollback leaves the pending row
EraseRoomKeepsRow(rooms, id) == rooms

\* chat_rooms.erase(sender_id)
EraseRoom(rooms, id) == rooms \ RoomsAt(rooms, id)

\* the row at id gets the peer's id
SetPeerId(rooms, id, peer_id) ==
  { IF r.id = id THEN Room(r.id, r.peer, peer_id) ELSE r : r \in rooms }

\* HandleMessage CHAT_MESSAGE with destination NEW_DIRECT
NewDirect(a, b) ==
  /\ a # b
  /\ Len(chat_reqs) < MaxChatEvents
  /\ chat_reqs' = Append(chat_reqs, <<a, b>>)
  /\ chat_strand' = [chat_strand EXCEPT ![a] = Append(@, ChatTask("new", a, b, 0, 0))]
  /\ UNCHANGED <<chat_rooms_, chat_rooms_id_, chat_replies, chat_event>>
  /\ UNCHANGED notChat

\* the sender's first task: the pending row and the hop to the recipient
NewDirectSenderTask(task) ==
  LET a == task.from
      b == task.to
      id == chat_rooms_id_[a]
  IN
  IF Cardinality(chat_rooms_[a]) >= chat_rooms_limit
  THEN /\ chat_replies' = [chat_replies EXCEPT ![a] = Append(@, ChatReply("USER_CHAT_LIMIT", 0))]
       /\ chat_strand' = [chat_strand EXCEPT ![a] = Tail(@)]
       /\ UNCHANGED <<chat_rooms_, chat_rooms_id_>>
  ELSE IF RoomsWith(chat_rooms_[a], b) # {}
  THEN /\ chat_replies' = [chat_replies EXCEPT ![a] =
            Append(@, ChatReply("channel_id", (CHOOSE r \in RoomsWith(chat_rooms_[a], b) : TRUE).peer_id))]
       /\ chat_strand' = [chat_strand EXCEPT ![a] = Tail(@)]
       /\ UNCHANGED <<chat_rooms_, chat_rooms_id_>>
  ELSE /\ chat_rooms_id_' = [chat_rooms_id_ EXCEPT ![a] = id + 1]
       /\ chat_rooms_' = [chat_rooms_ EXCEPT ![a] = @ \cup {Room(id, b, 0)}]
       /\ chat_strand' = [chat_strand EXCEPT ![a] = Tail(@),
                                             ![b] = Append(@, ChatTask("recipient", a, b, id, 0))]
       /\ UNCHANGED chat_replies

\* mutant: the recipient's table is not tested for the limit
NewDirectRecipientTaskNoLimit(task) ==
  LET a == task.from
      b == task.to
      existing == RoomsWith(chat_rooms_[b], a)
      recipient_id == chat_rooms_id_[b]
  IN
  IF existing # {}
  THEN LET room == CHOOSE r \in existing : TRUE IN
       IF room.peer_id = 0
       THEN /\ chat_rooms_' = [chat_rooms_ EXCEPT ![b] = SetPeerId(@, room.id, task.sender_id)]
            /\ chat_strand' = [chat_strand EXCEPT ![b] = Tail(@)]
            /\ UNCHANGED <<chat_rooms_id_, chat_replies>>
       ELSE /\ chat_replies' = [chat_replies EXCEPT ![a] =
                 Append(@, ChatReply("channel_id", task.sender_id))]
            /\ chat_strand' = [chat_strand EXCEPT ![b] = Tail(@)]
            /\ UNCHANGED <<chat_rooms_, chat_rooms_id_>>
  ELSE IF FALSE
  THEN /\ chat_strand' = [chat_strand EXCEPT ![b] = Tail(@),
                                             ![a] = Append(@, ChatTask("rollback", a, b, task.sender_id, 0))]
       /\ UNCHANGED <<chat_rooms_, chat_rooms_id_, chat_replies>>
  ELSE \* std::make_pair(recipient, sender_id): the row names the recipient
       /\ chat_rooms_id_' = [chat_rooms_id_ EXCEPT ![b] = recipient_id + 1]
       /\ chat_rooms_' = [chat_rooms_ EXCEPT ![b] = @ \cup {Room(recipient_id, b, task.sender_id)}]
       /\ chat_strand' = [chat_strand EXCEPT ![b] = Tail(@),
                                             ![a] = Append(@, ChatTask("finish", a, b, task.sender_id,
                                                                       recipient_id))]
       /\ UNCHANGED chat_replies

\* the task on the recipient's chat_rooms_
NewDirectRecipientTask(task) ==
  LET a == task.from
      b == task.to
      existing == RoomsWith(chat_rooms_[b], a)
      recipient_id == chat_rooms_id_[b]
  IN
  IF existing # {}
  THEN LET room == CHOOSE r \in existing : TRUE IN
       IF room.peer_id = 0
       THEN /\ chat_rooms_' = [chat_rooms_ EXCEPT ![b] = SetPeerId(@, room.id, task.sender_id)]
            /\ chat_strand' = [chat_strand EXCEPT ![b] = Tail(@)]
            /\ UNCHANGED <<chat_rooms_id_, chat_replies>>
       ELSE /\ chat_replies' = [chat_replies EXCEPT ![a] =
                 Append(@, ChatReply("channel_id", task.sender_id))]
            /\ chat_strand' = [chat_strand EXCEPT ![b] = Tail(@)]
            /\ UNCHANGED <<chat_rooms_, chat_rooms_id_>>
  ELSE IF Cardinality(chat_rooms_[b]) >= chat_rooms_limit
  THEN /\ chat_strand' = [chat_strand EXCEPT ![b] = Tail(@),
                                             ![a] = Append(@, ChatTask("rollback", a, b, task.sender_id, 0))]
       /\ UNCHANGED <<chat_rooms_, chat_rooms_id_, chat_replies>>
  ELSE \* std::make_pair(recipient, sender_id): the row names the recipient
       /\ chat_rooms_id_' = [chat_rooms_id_ EXCEPT ![b] = recipient_id + 1]
       /\ chat_rooms_' = [chat_rooms_ EXCEPT ![b] = @ \cup {Room(recipient_id, b, task.sender_id)}]
       /\ chat_strand' = [chat_strand EXCEPT ![b] = Tail(@),
                                             ![a] = Append(@, ChatTask("finish", a, b, task.sender_id,
                                                                       recipient_id))]
       /\ UNCHANGED chat_replies

\* the task that rolls the sender's pending row back
NewDirectRollbackTask(task) ==
  LET a == task.from IN
  /\ chat_rooms_' = [chat_rooms_ EXCEPT ![a] = EraseRoom(@, task.sender_id)]
  /\ chat_replies' = [chat_replies EXCEPT ![a] = Append(@, ChatReply("RECIPIENT_CHAT_LIMIT", 0))]
  /\ chat_strand' = [chat_strand EXCEPT ![a] = Tail(@)]
  /\ UNCHANGED chat_rooms_id_

\* the sender's last task: the pending row gets the recipient's id
NewDirectFinishTask(task) ==
  LET a == task.from
      b == task.to
      pending == { r \in RoomsAt(chat_rooms_[a], task.sender_id) : r.peer_id = 0 }
  IN
  /\ chat_strand' = [chat_strand EXCEPT ![a] = Tail(@)]
  /\ UNCHANGED chat_rooms_id_
  /\ IF pending # {}
     THEN /\ chat_rooms_' = [chat_rooms_ EXCEPT ![a] = SetPeerId(@, task.sender_id, task.recipient_id)]
          /\ chat_replies' = [chat_replies EXCEPT
               ![a] = @ \o << ChatReply("channel_id", task.sender_id),
                              ChatReply("new_chat_channel", task.recipient_id) >>,
               ![b] = Append(@, ChatReply("new_chat_channel", task.recipient_id))]
     ELSE UNCHANGED <<chat_rooms_, chat_replies>>

\* HandleMessage CHAT_MESSAGE with destination DIRECT: the client names a
\* chat by an id, one of its table or one that is not there
DirectMessage(a) ==
  /\ Len(chat_reqs) < MaxChatEvents
  /\ \E id \in {r.id : r \in chat_rooms_[a]} \cup {chat_rooms_id_[a]} :
       chat_strand' = [chat_strand EXCEPT ![a] = Append(@, ChatTask("direct", a, "", id, 0))]
  /\ chat_reqs' = Append(chat_reqs, <<a, "direct">>)
  /\ UNCHANGED <<chat_rooms_, chat_rooms_id_, chat_replies, chat_event>>
  /\ UNCHANGED notChat

\* the channel of CreateChatMessage(id, username, message): the id the
\* sender named
DirectChannel(room) == room.id

\* the task of a direct message on the sender's chat_rooms_
DirectTask(task) ==
  LET a == task.from
      rows == RoomsAt(chat_rooms_[a], task.sender_id)
      room == CHOOSE r \in rows : TRUE
  IN
  /\ chat_strand' = [chat_strand EXCEPT ![a] = Tail(@)]
  /\ UNCHANGED <<chat_rooms_, chat_rooms_id_>>
  /\ IF rows # {} /\ room.peer \in Chatters
     THEN chat_replies' = [chat_replies EXCEPT ![room.peer] =
            Append(@, ChatReply("chat_message", DirectChannel(room)))]
     ELSE UNCHANGED chat_replies

\* run the task at the head of a socket's chat_rooms_ strand
RunChatTask(s) ==
  /\ chat_strand[s] # <<>>
  /\ LET task == Head(chat_strand[s]) IN
     /\ CASE task.op = "new" -> NewDirectSenderTask(task)
          [] task.op = "recipient" -> NewDirectRecipientTask(task)
          [] task.op = "rollback" -> NewDirectRollbackTask(task)
          [] task.op = "finish" -> NewDirectFinishTask(task)
          [] task.op = "direct" -> DirectTask(task)
     /\ chat_event' = [kind |-> task.op, at |-> s, task |-> task, pre |-> chat_rooms_]
  /\ UNCHANGED chat_reqs
  /\ UNCHANGED notChat

NextChat ==
  \/ \E a, b \in Chatters : NewDirect(a, b)
  \/ \E a \in Chatters : DirectMessage(a)
  \/ \E s \in Chatters : RunChatTask(s)

\* every task of every chat_rooms_ strand has run
ChatQuiescent == \A s \in Chatters : chat_strand[s] = <<>>

\* C39: the chat-rooms table of a session never holds more than
\* chat_rooms_limit rows
TableWithinLimit ==
  \A s \in Chatters : Cardinality(chat_rooms_[s]) <= chat_rooms_limit

\* B, whose table had room for one chat, has filled it as the sender of a
\* setup, and the task that makes it the recipient of another setup has
\* found the table full and sent the rollback
TableWithinLimitWitness ==
  /\ chat_event.kind = "recipient" /\ chat_event.at = "B"
  /\ chat_event.pre["B"] = NearFullTable \cup {Room(chat_rooms_limit, "A", 0)}
  /\ chat_rooms_["B"] = chat_event.pre["B"]
  /\ chat_strand[chat_event.task.from] # <<>>
  /\ chat_strand[chat_event.task.from][Len(chat_strand[chat_event.task.from])].op = "rollback"

\* C12: once the setups have completed, a row id -> (peer, peer's id) of a
\* chatter has its counterpart on the peer: peer's id -> (the chatter, id)
DirectRowsSymmetric ==
  ChatQuiescent =>
    \A a \in Chatters : \A r \in chat_rooms_[a] :
      (r.peer \in Chatters /\ r.peer # a /\ r.peer_id # 0) =>
        Room(r.peer_id, a, r.id) \in chat_rooms_[r.peer]

\* C13: a new-direct to a recipient whose table is full (no row for the
\* sender) ends with RECIPIENT_CHAT_LIMIT for the sender; the rollback removes
\* the pending row and nothing else, the recipient's full table stays as it
\* was, and when this was the only request every table is as before it
RecipientLimitRollsBack ==
  /\ chat_event.kind = "rollback" =>
       LET a == chat_event.task.from
           b == chat_event.task.to
       IN
       /\ Cardinality(chat_rooms_[b]) >= chat_rooms_limit
       /\ chat_replies[a] # <<>>
       /\ chat_replies[a][Len(chat_replies[a])] = ChatReply("RECIPIENT_CHAT_LIMIT", 0)
       /\ chat_rooms_[a] = chat_event.pre[a] \ {Room(chat_event.task.sender_id, b, 0)}
       /\ RoomsAt(chat_rooms_[a], chat_event.task.sender_id) = {}
       /\ \A s \in Chatters \ {a} : chat_rooms_[s] = chat_event.pre[s]
       /\ (Len(chat_reqs) = 1 /\ ChatQuiescent) =>
            /\ chat_rooms_ = [s \in Chatters |-> IF s = b THEN FullTable ELSE {}]
            /\ chat_replies[a] = <<ChatReply("RECIPIENT_CHAT_LIMIT", 0)>>
  /\ Cardinality(chat_rooms_["B"]) >= chat_rooms_limit => chat_rooms_["B"] = FullTable

\* C13 witness: A, which has a chat with C, asked for B whose table is full,
\* and the rollback has run
RecipientLimitWitness ==
  /\ chat_event.kind = "rollback"
  /\ chat_event.task.from = "A" /\ chat_event.task.to = "B"
  /\ RoomsWith(chat_rooms_["A"], "C") # {}
  /\ chat_rooms_["B"] = FullTable

\* C31: a direct message that a chatter sends on a chat that is set up is
\* queued on the peer with the peer's id of the chat as its channel, and the
\* setup sends its initial message to the recipient with recipient_id and to
\* the sender with sender_id as the channel
DirectChannelIsPeersId ==
  /\ chat_event.kind = "direct" =>
       \A r \in RoomsAt(chat_event.pre[chat_event.at], chat_event.task.sender_id) :
         (r.peer \in Chatters /\ r.peer_id # 0) =>
           /\ chat_replies[r.peer] # <<>>
           /\ chat_replies[r.peer][Len(chat_replies[r.peer])] =
                ChatReply("chat_message", r.peer_id)
  /\ ( /\ chat_event.kind = "finish"
       /\ chat_rooms_ # chat_event.pre ) =>
       LET a == chat_event.task.from
           b == chat_event.task.to
       IN
       /\ chat_replies[b][Len(chat_replies[b])] =
            ChatReply("new_chat_channel", chat_event.task.recipient_id)
       /\ chat_replies[a][Len(chat_replies[a])] =
            ChatReply("new_chat_channel", chat_event.task.sender_id)

(***************************************************************************)
(* ADMIN-ONLY MESSAGES (the cases of HandleMessage that test is_admin_).   *)
(* A case that passes its test goes on to dispatch a task, to call the     *)
(* database or to queue a response; a case that fails it breaks out of     *)
(* the switch with nothing done.                                           *)
(***************************************************************************)
\* the sockets of the admin specification
Staff == {"s1", "s2"}

\* the admin-only kinds of message
AdminKinds ==
  { "server_config_request", "server_config_modifications", "create_vm",
    "read_vms", "read_vm_config", "update_vm_config", "delete_vm",
    "start_vms", "stop_vms", "restart_vms", "create_invite", "read_invites",
    "update_invite", "delete_invite", "create_reserved_username",
    "read_reserved_usernames", "delete_reserved_username", "ban_ip",
    "send_captcha", "kick_user", "pause_turn_timer", "resume_turn_timer",
    "recording_preview_request" }

AdminOutcome(kind, by, admin, passed) ==
  [kind |-> kind, by |-> by, admin |-> admin, passed |-> passed]

InitAdmin ==
  /\ a_is_admin_ = [s \in Staff |-> FALSE]
  /\ a_connected_vm_id_ = [s \in Staff |-> 0]
  /\ admin_last = AdminOutcome("", "", FALSE, FALSE)

\* CreateSession: socket->is_admin_ = is_admin, as the database says
StaffLogin(s, is_admin) ==
  /\ a_is_admin_' = [a_is_admin_ EXCEPT ![s] = is_admin]
  /\ UNCHANGED <<a_connected_vm_id_, admin_last>>
  /\ UNCHANGED notAdmin

\* the channel task of CONNECT_TO_CHANNEL: connected_vm_id_ = channel.GetId()
StaffConnect(s, id) ==
  /\ a_connected_vm_id_' = [a_connected_vm_id_ EXCEPT ![s] = id]
  /\ UNCHANGED <<a_is_admin_, admin_last>>
  /\ UNCHANGED notAdmin

\* mutant: the turn timer cases only ask for a connected VM
AdminGateTimerOpen(s, kind) ==
  IF kind \in {"pause_turn_timer", "resume_turn_timer"}
  THEN a_connected_vm_id_[s] # 0
  ELSE a_is_admin_[s]

\* the test at the head of each admin-only case
AdminGate(s, kind) ==
  IF kind \in {"pause_turn_timer", "resume_turn_timer"}
  THEN a_is_admin_[s] /\ a_connected_vm_id_[s] # 0
  ELSE a_is_admin_[s]

\* HandleMessage with a message of an admin-only kind
AdminMessage(s, kind) ==
  /\ admin_last' = AdminOutcome(kind, s, a_is_admin_[s], AdminGate(s, kind))
  /\ UNCHANGED <<a_is_admin_, a_connected_vm_id_>>
  /\ UNCHANGED notAdmin

NextAdmin ==
  \/ \E s \in Staff, is_admin \in BOOLEAN : StaffLogin(s, is_admin)
  \/ \E s \in Staff, id \in {global_channel_id, VmId} : StaffConnect(s, id)
  \/ \E s \in Staff, kind \in AdminKinds : AdminMessage(s, kind)

VmSockets == {"g", "m", "n"}
VmNamed == {"m", "n"}
VmAdmins == {"n"}

\* the VMs the constructor reads from the database
VmIds == {1, 2}

\* the channels: the global chat room and the VMs' user channels
VmChannels == {global_channel_id} \cup VmIds

\* number of client requests and timer expiries in one run
MaxVmEvents == 4

VmTask(op, sock, id) == [op |-> op, sock |-> sock, id |-> id, was_member |-> FALSE]

\* a VM list message: whom it went to, the ids it lists, and the VMs whose
\* deletion was processed before it was built
VmListMessage(to, list, deleted) == [to |-> to, list |-> list, deleted |-> deleted]

\* a chat history entry: the sender and whether it was in a channel when it sent
ChatEntry(from, was_member) == [from |-> from, was_member |-> was_member]

InitVm ==
  /\ v_connected_vm_id_ = [s \in VmSockets |-> 0]
  /\ v_is_in_global_chat_ = [s \in VmSockets |-> FALSE]
  /\ v_is_viewing_vm_list_ = [s \in VmSockets |-> FALSE]
  /\ admin_virtual_machines_ = VmIds
  /\ admin_vm_info_list_ = VmIds
  /\ vm_info_list_ = {}
  /\ pending_vm_info_requests_ = 0
  /\ pending_vm_info = {}
  /\ v_vms_strand = <<>>
  /\ v_channel_strand = [c \in VmChannels |-> <<>>]
  /\ v_users = [c \in VmChannels |-> {}]
  /\ v_viewers = {}
  /\ chat_history = [c \in VmChannels |-> <<>>]
  /\ vm_lists_sent = {}
  /\ vm_deleted = {}
  /\ vm_events = 0

VmClientEvent ==
  /\ vm_events < MaxVmEvents
  /\ vm_events' = vm_events + 1

\* HandleMessage CONNECT_TO_CHANNEL of a socket with a username
VmConnectToChannel(s, id) ==
  /\ VmClientEvent
  /\ IF id = global_channel_id
     THEN IF v_is_in_global_chat_[s]
          THEN UNCHANGED <<v_is_in_global_chat_, v_channel_strand, v_vms_strand>>
          ELSE /\ v_is_in_global_chat_' = [v_is_in_global_chat_ EXCEPT ![s] = TRUE]
               /\ v_channel_strand' =
                    [v_channel_strand EXCEPT ![id] = Append(@, VmTask("connect", s, id))]
               /\ UNCHANGED v_vms_strand
     ELSE /\ v_vms_strand' = Append(v_vms_strand, VmTask("connect", s, id))
          /\ UNCHANGED <<v_is_in_global_chat_, v_channel_strand>>
  /\ UNCHANGED <<v_connected_vm_id_, v_is_viewing_vm_list_, admin_virtual_machines_,
                 admin_vm_info_list_, vm_info_list_, pending_vm_info_requests_,
                 pending_vm_info, v_users, v_viewers, chat_history, vm_lists_sent,
                 vm_deleted>>
  /\ UNCHANGED notVm

\* HandleMessage DELETE_VM
DeleteVm(s, id) ==
  /\ VmClientEvent
  /\ v_vms_strand' =
       IF s \in VmAdmins THEN Append(v_vms_strand, VmTask("delete", s, id))
       ELSE v_vms_strand
  /\ UNCHANGED <<v_connected_vm_id_, v_is_in_global_chat_, v_is_viewing_vm_list_,
                 admin_virtual_machines_, admin_vm_info_list_, vm_info_list_,
                 pending_vm_info_requests_, pending_vm_info, v_channel_strand,
                 v_users, v_viewers, chat_history, vm_lists_sent, vm_deleted>>
  /\ UNCHANGED notVm

\* HandleMessage VM_LIST_REQUEST
VmListRequestVm(s) ==
  /\ VmClientEvent
  /\ v_vms_strand' = Append(v_vms_strand, VmTask("vm_list", s, 0))
  /\ UNCHANGED <<v_connected_vm_id_, v_is_in_global_chat_, v_is_viewing_vm_list_,
                 admin_virtual_machines_, admin_vm_info_list_, vm_info_list_,
                 pending_vm_info_requests_, pending_vm_info, v_channel_strand,
                 v_users, v_viewers, chat_history, vm_lists_sent, vm_deleted>>
  /\ UNCHANGED notVm

\* the socket is a user of some channel
InSomeChannel(s) == \E c \in VmChannels : s \in v_users[c]

\* HandleMessage CHAT_MESSAGE with a VM destination: dropped when the socket
\* has no username, else sent to the global chat room or, through
\* virtual_machines_, to the VM's channel
ChatMessageVm(s, id) ==
  /\ VmClientEvent
  /\ LET task == [VmTask("chat", s, id) EXCEPT !.was_member = InSomeChannel(s)] IN
       IF s \notin VmNamed
       THEN UNCHANGED <<v_channel_strand, v_vms_strand>>
       ELSE IF id = global_channel_id
            THEN /\ v_channel_strand' = [v_channel_strand EXCEPT ![id] = Append(@, task)]
                 /\ UNCHANGED v_vms_strand
            ELSE /\ v_vms_strand' = Append(v_vms_strand, task)
                 /\ UNCHANGED v_channel_strand
  /\ UNCHANGED <<v_connected_vm_id_, v_is_in_global_chat_, v_is_viewing_vm_list_,
                 admin_virtual_machines_, admin_vm_info_list_, vm_info_list_,
                 pending_vm_info_requests_, pending_vm_info, v_users, v_viewers,
                 chat_history, vm_lists_sent, vm_deleted>>
  /\ UNCHANGED notVm

\* StartVmInfoUpdate: vm_info_timer_ expires
VmInfoTimerExpires ==
  /\ VmClientEvent
  /\ v_vms_strand' = Append(v_vms_strand, VmTask("update_list", "", 0))
  /\ UNCHANGED <<v_connected_vm_id_, v_is_in_global_chat_, v_is_viewing_vm_list_,
                 admin_virtual_machines_, admin_vm_info_list_, vm_info_list_,
                 pending_vm_info_requests_, pending_vm_info, v_channel_strand,
                 v_users, v_viewers, chat_history, vm_lists_sent, vm_deleted>>
  /\ UNCHANGED notVm

\* VirtualMachinesList::GetAdminVirtualMachine(id) is not null
HasAdminVirtualMachine(id) == id \in admin_virtual_machines_

\* the orders in which the VMs of a set can answer
Orders(S) == { q \in [1..Cardinality(S) -> S] : Range(q) = S }

\* run the task at the head of the virtual_machines_ strand
RunVmListTask ==
  /\ v_vms_strand # <<>>
  /\ LET task == Head(v_vms_strand)
         rest == Tail(v_vms_strand)
         id   == task.id
         ToChannel(t) == [v_channel_strand EXCEPT ![id] = Append(@, t)] IN
       CASE task.op \in {"connect", "chat"} ->
              \* null: connect answers with fail, chat returns; else
              \* GetSettings (guests are allowed) and GetUserChannel
              /\ v_channel_strand' =
                   IF HasAdminVirtualMachine(id) THEN ToChannel(task)
                   ELSE v_channel_strand
              /\ v_vms_strand' = rest
              /\ UNCHANGED <<v_is_viewing_vm_list_, admin_virtual_machines_,
                             admin_vm_info_list_, vm_info_list_,
                             pending_vm_info_requests_, pending_vm_info, v_viewers,
                             vm_lists_sent, vm_deleted>>
         [] task.op = "leave" ->
              /\ v_channel_strand' =
                   IF HasAdminVirtualMachine(id)
                   THEN ToChannel(VmTask("remove_user", task.sock, id))
                   ELSE v_channel_strand
              /\ v_vms_strand' = rest
              /\ UNCHANGED <<v_is_viewing_vm_list_, admin_virtual_machines_,
                             admin_vm_info_list_, vm_info_list_,
                             pending_vm_info_requests_, pending_vm_info, v_viewers,
                             vm_lists_sent, vm_deleted>>
         [] task.op = "delete" ->
              \* RemoveAdminVirtualMachine, db_.DeleteVm, SendAdminVmList
              IF ~HasAdminVirtualMachine(id)
              THEN /\ v_vms_strand' = rest
                   /\ UNCHANGED <<v_is_viewing_vm_list_, admin_virtual_machines_,
                                  admin_vm_info_list_, vm_info_list_,
                                  pending_vm_info_requests_, pending_vm_info,
                                  v_viewers, vm_lists_sent, vm_deleted,
                                  v_channel_strand>>
              ELSE /\ v_channel_strand' = ToChannel(VmTask("clear", task.sock, id))
                   /\ admin_virtual_machines_' = admin_virtual_machines_ \ {id}
                   /\ admin_vm_info_list_' = admin_vm_info_list_ \ {id}
                   /\ vm_deleted' = vm_deleted \cup {id}
                   /\ v_vms_strand' = rest
                   /\ UNCHANGED <<v_is_viewing_vm_list_, vm_info_list_,
                                  pending_vm_info_requests_, pending_vm_info,
                                  v_viewers, vm_lists_sent>>
         [] task.op = "vm_list" ->
              \* AddVmListViewer: SendThumbnails sends vm_info_list_
              IF v_is_viewing_vm_list_[task.sock]
              THEN /\ v_vms_strand' = rest
                   /\ UNCHANGED <<v_is_viewing_vm_list_, v_viewers, vm_lists_sent>>
                   /\ UNCHANGED <<admin_virtual_machines_, admin_vm_info_list_,
                                  vm_info_list_, pending_vm_info_requests_,
                                  pending_vm_info, vm_deleted, v_channel_strand>>
              ELSE /\ v_is_viewing_vm_list_' =
                        [v_is_viewing_vm_list_ EXCEPT ![task.sock] = TRUE]
                   /\ v_viewers' = v_viewers \cup {task.sock}
                   /\ vm_lists_sent' = vm_lists_sent \cup
                        { VmListMessage(task.sock, vm_info_list_, vm_deleted) }
                   /\ v_vms_strand' = rest
                   /\ UNCHANGED <<admin_virtual_machines_, admin_vm_info_list_,
                                  vm_info_list_, pending_vm_info_requests_,
                                  pending_vm_info, vm_deleted, v_channel_strand>>
         [] task.op = "remove_viewer" ->
              /\ v_viewers' = v_viewers \ {task.sock}
              /\ v_vms_strand' = rest
              /\ UNCHANGED <<v_is_viewing_vm_list_, admin_virtual_machines_,
                             admin_vm_info_list_, vm_info_list_,
                             pending_vm_info_requests_, pending_vm_info,
                             vm_lists_sent, vm_deleted, v_channel_strand>>
         [] task.op = "update_list" ->
              \* UpdateVirtualMachineInfoList: one SetVmInfo per VM, whose
              \* wrapped callbacks come back in any order
              /\ IF pending_vm_info_requests_ # 0
                 THEN /\ v_vms_strand' = rest
                      /\ UNCHANGED <<pending_vm_info_requests_, pending_vm_info>>
                 ELSE /\ pending_vm_info_requests_' = Cardinality(admin_virtual_machines_)
                      /\ \E q \in Orders(admin_virtual_machines_) :
                           v_vms_strand' =
                             rest \o [i \in 1..Len(q) |-> VmTask("vm_info", "", q[i])]
                      /\ UNCHANGED pending_vm_info
              /\ UNCHANGED <<v_is_viewing_vm_list_, admin_virtual_machines_,
                             admin_vm_info_list_, vm_info_list_, v_viewers,
                             vm_lists_sent, vm_deleted, v_channel_strand>>
         [] task.op = "vm_info" ->
              \* the callback of UpdateVirtualMachineInfoList; the last one
              \* rebuilds both lists from the registry and broadcasts them
              LET pending == pending_vm_info \cup {id}
                  listed  == admin_virtual_machines_ \cap pending IN
              /\ pending_vm_info_requests_' = pending_vm_info_requests_ - 1
              /\ IF pending_vm_info_requests_ - 1 # 0
                 THEN /\ pending_vm_info' = pending
                      /\ UNCHANGED <<admin_vm_info_list_, vm_info_list_, vm_lists_sent>>
                 ELSE /\ admin_vm_info_list_' = listed
                      /\ vm_info_list_' = listed
                      /\ pending_vm_info' = pending \ listed
                      /\ vm_lists_sent' = vm_lists_sent \cup
                           { VmListMessage(s, listed, vm_deleted) : s \in v_viewers }
              /\ v_vms_strand' = rest
              /\ UNCHANGED <<v_is_viewing_vm_list_, admin_virtual_machines_,
                             v_viewers, vm_deleted, v_channel_strand>>
  /\ UNCHANGED <<v_connected_vm_id_, v_is_in_global_chat_, v_users, chat_history,
                 vm_events>>
  /\ UNCHANGED notVm

\* the body of a task of a channel's strand
VmChannelTaskBody(c, task) ==
  CASE task.op = "connect" ->
         \* connect_to_channel: LeaveVmList, leave the VM connected so far,
         \* connected_vm_id_ = channel.GetId(), AddUser
         /\ v_is_viewing_vm_list_' = [v_is_viewing_vm_list_ EXCEPT ![task.sock] = FALSE]
         /\ v_vms_strand' =
              v_vms_strand
              \o (IF v_is_viewing_vm_list_[task.sock]
                  THEN <<VmTask("remove_viewer", task.sock, 0)>> ELSE <<>>)
              \o (IF v_connected_vm_id_[task.sock] # 0
                  THEN <<VmTask("leave", task.sock, v_connected_vm_id_[task.sock])>>
                  ELSE <<>>)
         /\ v_connected_vm_id_' = [v_connected_vm_id_ EXCEPT ![task.sock] = c]
         /\ v_users' = [v_users EXCEPT ![c] = @ \cup {task.sock}]
         /\ UNCHANGED chat_history
    [] task.op = "remove_user" ->
         /\ v_users' = [v_users EXCEPT ![c] = @ \ {task.sock}]
         /\ UNCHANGED <<v_is_viewing_vm_list_, v_vms_strand, v_connected_vm_id_,
                        chat_history>>
    [] task.op = "clear" ->
         /\ v_users' = [v_users EXCEPT ![c] = {}]
         /\ UNCHANGED <<v_is_viewing_vm_list_, v_vms_strand, v_connected_vm_id_,
                        chat_history>>
    [] task.op = "chat" ->
         \* send_message: AddUserMessage and BroadcastMessage
         /\ chat_history' =
              [chat_history EXCEPT ![c] = Append(@, ChatEntry(task.sock, task.was_member))]
         /\ UNCHANGED <<v_is_viewing_vm_list_, v_vms_strand, v_connected_vm_id_,
                        v_users>>

\* run the task at the head of a channel's strand.  The AdminVm of a deleted
\* VM was released by RemoveAdminVirtualMachine (vm->second.reset()) while the
\* tasks hold a plain pointer to it: such a task runs or is lost
RunVmChannelTask(c) ==
  /\ v_channel_strand[c] # <<>>
  /\ v_channel_strand' = [v_channel_strand EXCEPT ![c] = Tail(@)]
  /\ \/ VmChannelTaskBody(c, Head(v_channel_strand[c]))
     \/ /\ c \in vm_deleted
        /\ UNCHANGED <<v_is_viewing_vm_list_, v_vms_strand, v_connected_vm_id_,
                       v_users, chat_history>>
  /\ UNCHANGED <<v_is_in_global_chat_, admin_virtual_machines_, admin_vm_info_list_,
                 vm_info_list_, pending_vm_info_requests_, pending_vm_info,
                 v_viewers, vm_lists_sent, vm_deleted, vm_events>>
  /\ UNCHANGED notVm

NextVm ==
  \/ \E s \in VmNamed, id \in VmChannels : VmConnectToChannel(s, id)
  \/ \E s \in VmNamed, id \in VmIds : DeleteVm(s, id)
  \/ \E s \in VmNamed : VmListRequestVm(s)
  \/ \E s \in VmSockets, id \in VmChannels : ChatMessageVm(s, id)
  \/ VmInfoTimerExpires
  \/ RunVmListTask
  \/ \E c \in VmChannels : RunVmChannelTask(c)

\* C18: every session's connected_vm_id_ is 0 or the id of a VM that is in
\* the registry
ConnectedVmInRegistry ==
  \A s \in VmSockets :
    v_connected_vm_id_[s] = 0 \/ v_connected_vm_id_[s] \in admin_virtual_machines_

\* C19: every entry of a chat history was sent by a session that was a user
\* of some channel when it sent the message
ChatOnlyFromMembers ==
  \A c \in VmChannels : \A i \in 1..Len(chat_history[c]) :
    chat_history[c][i].was_member

\* C20: a VM whose delete-vm was processed is in none of the registry, the
\* admin VM list and the public VM list, and no VM list message built after
\* the deletion lists it
DeletedVmGone ==
  /\ \A v \in vm_deleted :
       /\ v \notin admin_virtual_machines_
       /\ v \notin admin_vm_info_list_
       /\ v \notin vm_info_list_
  /\ \A m \in vm_lists_sent : m.list \cap m.deleted = {}

(***************************************************************************)
(* RECORDING CONTROLLER of one VM (RecordingController: Start, Stop,       *)
(* SetRecordingSettings, UpdateKeyframeTimer, StartKeyframeTimer,           *)
(* WriteFileHeader).  A steady_timer is its expiry, whether a wait is       *)
(* outstanding, and the completion handlers it has posted: cancel() and     *)
(* expires_after() complete an outstanding wait with operation_aborted, the *)
(* expiry completes it with success; a posted handler runs later, whatever  *)
(* happened to the timer in between.  The two clocks advance together and   *)
(* never go back.  The VM calls Start, Stop and SetRecordingSettings.       *)
(***************************************************************************)
\* file durations and keyframe intervals of the settings, in clock ticks
FileDurations == {0, 2, 3}
KeyframeIntervals == {0, 1, 2}

\* the clock stops here
MaxRecTime == 4

\* number of calls of the VM (Start, Stop, SetRecordingSettings) in one run
MaxRecEvents == 3

\* RecordingFileHeader: keyframes is the preallocated list (slots entries),
\* of which the first keyframesCount carry the timestamps in stamps
RecordingFileHeader(startTime, slots) ==
  [startTime |-> startTime, stopTime |-> 0, slots |-> slots,
   keyframesCount |-> 0, stamps |-> <<>>]

Timer(expiry, waiting) == [expiry |-> expiry, waiting |-> waiting]

\* a completion handler posted by a timer
Handler(timer, ec) == [timer |-> timer, ec |-> ec]

\* history: the last time Start was entered by a timer handler or by a
\* change of the settings while a file was recorded, and opened a new file;
\* stopTime is the stop time it gave the file before,
\* pending the number of handlers that were posted then and have not run
Rollover(stopTime, pending) == [active |-> TRUE, stopTime |-> stopTime, pending |-> pending]
NoRollover == [active |-> FALSE, stopTime |-> 0, pending |-> 0]

\* the controller after construction, with the settings not yet given
NewRecordingController ==
  [file_duration_ |-> 0, keyframe_interval_ |-> 0,
   is_open |-> FALSE,
   file_header_ |-> RecordingFileHeader(0, 0),
   next_keyframe_offset_ |-> 0,
   stop_timer_ |-> Timer(0, FALSE), keyframe_timer_ |-> Timer(0, FALSE),
   handlers |-> <<>>,
   written |-> {}, opened |-> 0, closed |-> 0,
   rollover |-> NoRollover]

RecEvent(op, ec, was_recording, remaining, duration, rolled, unchanged) ==
  [op |-> op, ec |-> ec, was_recording |-> was_recording, remaining |-> remaining,
   duration |-> duration, rolled |-> rolled, unchanged |-> unchanged]

InitRec ==
  /\ rc = NewRecordingController
  /\ rec_now = 1
  /\ rec_event = RecEvent("", "", FALSE, 0, 0, FALSE, TRUE)
  /\ rec_events = 0

\* IsRecording: file_stream_.is_open() && file_stream_.good()
IsRecording(r) == r.is_open

\* steady_timer::cancel
TimerCancel(r, t) ==
  IF r[t].waiting
  THEN [r EXCEPT ![t].waiting = FALSE,
                 !.handlers = Append(@, Handler(t, "aborted"))]
  ELSE r

\* steady_timer::expires_after followed by async_wait
TimerStart(r, t, d, tnow) ==
  [TimerCancel(r, t) EXCEPT ![t] = Timer(tnow + d, TRUE)]

\* WriteFileHeader: the header goes to offset 0 of the open file; the write
\* to a closed stream fails
WriteFileHeader(r) ==
  IF r.is_open THEN [r EXCEPT !.written = @ \cup {r.file_header_}] ELSE r

\* StartKeyframeTimer: arming the timer
StartKeyframeTimer(r, tnow) ==
  TimerStart(r, "keyframe_timer_", r.keyframe_interval_, tnow)

\* UpdateKeyframeTimer
UpdateKeyframeTimer(r, tnow) ==
  IF r.keyframe_interval_ = 0
  THEN TimerCancel(r, "keyframe_timer_")
  ELSE StartKeyframeTimer(r, tnow)

\* RecordingController::Stop
Stop(r, tnow) ==
  IF ~IsRecording(r) THEN r
  ELSE LET r1 == TimerCancel(r, "keyframe_timer_")
           r2 == TimerCancel(r1, "stop_timer_")
           r3 == WriteFileHeader([r2 EXCEPT !.file_header_.stopTime = tnow]) IN
       [r3 EXCEPT !.is_open = FALSE, !.closed = @ + 1]

\* RecordingController::Start; created: the directory, the date string and
\* the file could be made
Start(r, tnow, created) ==
  IF r.file_duration_ = 0 THEN r
  ELSE LET r1 == Stop(r, tnow) IN
       IF ~created THEN [r1 EXCEPT !.rollover = NoRollover]
       ELSE LET slots == IF r1.keyframe_interval_ # 0
                         THEN r1.file_duration_ \div r1.keyframe_interval_
                         ELSE 0
                r2 == [r1 EXCEPT !.is_open = TRUE, !.opened = @ + 1,
                                 !.file_header_ = RecordingFileHeader(tnow, slots),
                                 !.next_keyframe_offset_ = 0]
                r3 == TimerStart(r2, "stop_timer_", r2.file_duration_, tnow)
                r4 == WriteFileHeader(UpdateKeyframeTimer(r3, tnow)) IN
            [r4 EXCEPT !.rollover =
               IF IsRecording(r)
               THEN Rollover(r1.file_header_.stopTime, Len(r4.handlers))
               ELSE NoRollover]

\* RecordingController::SetRecordingSettings
SetRecordingSettings(r, tnow, file_duration, keyframe_interval, created) ==
  LET r1 == [r EXCEPT !.file_duration_ = file_duration,
                      !.keyframe_interval_ = keyframe_interval] IN
  IF ~IsRecording(r1) THEN r1
  ELSE IF r1.stop_timer_.expiry - tnow < file_duration
       THEN Start(r1, tnow, created)
       ELSE UpdateKeyframeTimer(r1, tnow)

\* the end of the keyframe list is never seen
KeyframeSlotsSkipped(r) == FALSE

\* next_keyframe_offset_ == keyframe_offsets.end()
KeyframeSlotsFull(r) == r.next_keyframe_offset_ = r.file_header_.slots

\* the handler StartKeyframeTimer gives to keyframe_timer_.async_wait
KeyframeTimerHandler(r, tnow, ec, created) ==
  IF ec = "aborted" THEN r
  ELSE IF KeyframeSlotsFull(r) THEN Start(r, tnow, created)
  ELSE LET r1 == [r EXCEPT !.file_header_.stamps = Append(@, tnow),
                           !.file_header_.keyframesCount = @ + 1,
                           !.next_keyframe_offset_ = @ + 1] IN
       StartKeyframeTimer(WriteFileHeader(r1), tnow)

\* the handler Start gives to stop_timer_.async_wait
StopTimerHandler(r, tnow, ec, created) ==
  IF ec = "aborted" THEN Stop(r, tnow) ELSE Start(r, tnow, created)

RecCall ==
  /\ rec_events < MaxRecEvents
  /\ rec_events' = rec_events + 1

\* the VM starts recording
RecStart ==
  /\ RecCall
  /\ \E created \in BOOLEAN :
       rc' = [Start(rc, rec_now, created) EXCEPT !.rollover = NoRollover]
  /\ rec_event' = RecEvent("start", "", IsRecording(rc), 0, 0,
                           rc'.closed # rc.closed, rc' = rc)
  /\ UNCHANGED rec_now
  /\ UNCHANGED notRec

\* the VM stops recording
RecStop ==
  /\ RecCall
  /\ rc' = [Stop(rc, rec_now) EXCEPT !.rollover = NoRollover]
  /\ rec_event' = RecEvent("stop", "", IsRecording(rc), 0, 0,
                           rc'.closed # rc.closed, rc' = rc)
  /\ UNCHANGED rec_now
  /\ UNCHANGED notRec

\* the VM passes on new recording settings
RecSetRecordingSettings(d, k) ==
  /\ RecCall
  /\ \E created \in BOOLEAN :
       LET r == SetRecordingSettings(rc, rec_now, d, k, created) IN
       rc' = IF r.opened = rc.opened THEN [r EXCEPT !.rollover = NoRollover] ELSE r
  /\ rec_event' = RecEvent("settings", "", IsRecording(rc),
                           rc.stop_timer_.expiry - rec_now, d,
                           rc'.closed # rc.closed, rc' = rc)
  /\ UNCHANGED rec_now
  /\ UNCHANGED notRec

\* a timer's expiry time has come: its wait completes with success
RecTimerExpires(t) ==
  /\ rc[t].waiting /\ rc[t].expiry <= rec_now
  /\ rc' = [rc EXCEPT ![t].waiting = FALSE, !.handlers = Append(@, Handler(t, "ok"))]
  /\ UNCHANGED <<rec_now, rec_event, rec_events>>
  /\ UNCHANGED notRec

\* a posted completion handler runs
RecRunHandler ==
  /\ \E i \in DOMAIN rc.handlers, created \in BOOLEAN :
       LET h  == rc.handlers[i]
           r0 == [rc EXCEPT !.handlers = SubSeq(@, 1, i - 1) \o SubSeq(@, i + 1, Len(@)),
                            !.rollover.pending = IF i <= @ THEN @ - 1 ELSE @] IN
       /\ rc' = IF h.timer = "stop_timer_"
                THEN StopTimerHandler(r0, rec_now, h.ec, created)
                ELSE KeyframeTimerHandler(r0, rec_now, h.ec, created)
       /\ rec_event' = RecEvent(h.timer, h.ec, IsRecording(rc), 0, 0,
                                rc'.closed # rc.closed, rc' = r0)
  /\ UNCHANGED <<rec_now, rec_events>>
  /\ UNCHANGED notRec

\* the clocks advance
RecTick ==
  /\ rec_now < MaxRecTime
  /\ rec_now' = rec_now + 1
  /\ UNCHANGED <<rc, rec_event, rec_events>>
  /\ UNCHANGED notRec

NextRec ==
  \/ RecStart
  \/ RecStop
  \/ \E d \in FileDurations, k \in KeyframeIntervals : RecSetRecordingSettings(d, k)
  \/ \E t \in {"stop_timer_", "keyframe_timer_"} : RecTimerExpires(t)
  \/ RecRunHandler
  \/ RecTick

\* C21: in every header written to a recording file keyframesCount is at most
\* the number of preallocated slots, and when stopTime > 0 every recorded
\* keyframe timestamp lies between startTime and stopTime
HeaderWellFormed ==
  \A h \in rc.written :
    /\ h.keyframesCount <= h.slots
    /\ Len(h.stamps) = h.keyframesCount
    /\ h.stopTime > 0 =>
         \A i \in 1..h.keyframesCount :
           h.startTime <= h.stamps[i] /\ h.stamps[i] <= h.stopTime

\* a file was closed with every slot of its keyframe list used, and it was
\* not the only file
HeaderWitness ==
  /\ \E h \in rc.written :
       h.stopTime > 0 /\ h.keyframesCount >= 1 /\ h.keyframesCount = h.slots
  /\ rc.opened >= 2

\* C27: when the settings change while the VM is recording (with a file
\* duration that keeps recording on), the file is rolled over exactly when the
\* time left to the stop deadline is at least the new file duration
SettingsRollOver ==
  ( /\ rec_event.op = "settings"
    /\ rec_event.was_recording
    /\ rec_event.duration > 0 )
  => (rec_event.rolled <=> rec_event.remaining >= rec_event.duration)

\* C28: a timer handler invoked with operation_aborted leaves the controller
\* as it is: no header is written, no file closed, no timer touched
AbortedHandlerDoesNothing ==
  ( /\ rec_event.op \in {"stop_timer_", "keyframe_timer_"}
    /\ rec_event.ec = "aborted" )
  => rec_event.unchanged

\* the stop timer is armed: its wait is outstanding, or its expiry has
\* posted the handler that rolls the file over
StopTimerArmed(r) ==
  \/ r.stop_timer_.waiting
  \/ \E i \in DOMAIN r.handlers : r.handlers[i] = Handler("stop_timer_", "ok")

\* C40: after Start was entered while a file was recorded (the stop timer
\* fired, the keyframe slots were used up, or the settings changed) and has
\* opened a new file, and the handlers that were pending then have run, the
\* controller records into the new file with the stop timer armed, and the
\* start time of the new file is the stop time of the file before
RolloverKeepsRecording ==
  (rc.rollover.active /\ rc.rollover.pending = 0) =>
    /\ IsRecording(rc)
    /\ StopTimerArmed(rc)
    /\ rc.file_header_.startTime = rc.rollover.stopTime

(***************************************************************************)
(* PLAYBACK PREVIEW (CollabVmSocket::SendRecordingPreviews and its local   *)
(* RecordingFileStream).  The handler walks the recording files of a VM    *)
(* from the start to the stop time of the request.  One action is a pass   *)
(* of its outer loop up to the opening of the file of the cursor, another  *)
(* is a pass of the inner loop that plays the open file.  The database is  *)
(* not part of the source: it answers with a file whose range covers the   *)
(* cursor.                                                                 *)
(***************************************************************************)
\* start times, stop times and sampling intervals of a request (ms)
StartTimes == {0, 1, 3}

StopTimes == {0, 5}

TimeIntervals == {0, 2}

\* start and stop times of a recording file; stop 0 is a file still recorded
FileStartTimes == {1, 3}

FileStopTimes == {0, 3, 5}

\* the request remembers its MaxSent most recent messages
MaxSent == 3

RecordingPreviewRequest(startTime, stopTime, timeInterval) ==
  [startTime |-> startTime, stopTime |-> stopTime, timeInterval |-> timeInterval]

Keyframe(fileOffset, timestamp) ==
  [fileOffset |-> fileOffset, timestamp |-> timestamp]

\* a recorded server message: a guacamole SYNC or IMG instruction, or a
\* message that is not a guacamole instruction
RecordedMessage(which, sync) == [which |-> which, sync |-> sync]

\* a recording file: its row in the database (path, start, stop), whether it
\* opens, whether its header deserialises, the header and the messages
RecordingFile(path, startTime, stopTime, state, keyframes, messages) ==
  [path |-> path, file_start_time |-> startTime, file_stop_time |-> stopTime,
   is_open |-> state # "missing", readable |-> state = "ok",
   startTime |-> startTime, stopTime |-> stopTime,
   keyframes |-> keyframes, messages |-> messages]

\* the answer of the database when it has no file
NoRecordingFile == RecordingFile(<<>>, 0, 0, "missing", <<>>, <<>>)

\* keyframe indexes of a file that starts at s
KeyframeLists(s) ==
  { <<>>, <<Keyframe(0, s), Keyframe(1, s + 1)>> }

\* message streams of a file that starts at s
MessageStreams(s) ==
  { <<>>,
    <<RecordedMessage("SYNC", s + 1)>>,
    <<RecordedMessage("IMG", 0), RecordedMessage("SYNC", s + 1),
      RecordedMessage("CHAT_MESSAGE", 0), RecordedMessage("SYNC", s + 3)>> }

\* the files that start at s
RecordingFilesAt(s) ==
  { RecordingFile(<<"rec", s>>, s, e, st, k, m) :
      e \in { x \in FileStopTimes : x = 0 \/ s < x },
      st \in {"ok", "missing", "corrupt"},
      k \in KeyframeLists(s),
      m \in MessageStreams(s) }

RecordingFiles == UNION { RecordingFilesAt(s) : s \in FileStartTimes }

RecordingPlaybackResult(result) ==
  [which |-> "RecordingPlaybackResult", result |-> result, timestamp |-> 0]

RecordingPlaybackPreview(timestamp) ==
  [which |-> "RecordingPlaybackPreview", result |-> FALSE,
   timestamp |-> timestamp]

\* QueueMessage: the messages of the request, the most recent MaxSent kept
QueuePreviewMessages(sent, msgs) ==
  LET all == sent \o msgs
  IN  IF Len(all) <= MaxSent THEN all
      ELSE SubSeq(all, Len(all) - MaxSent + 1, Len(all))

\* Database::GetRecordingFilePath(vm, t, t): a file whose range covers t;
\* at the stop time of a file the answer is that file or the next one (or
\* none)
GetRecordingFilePath(t) ==
  LET covers == { f \in recordings :
                    /\ f.file_start_time <= t
                    /\ f.file_stop_time = 0 \/ t <= f.file_stop_time }
      within == { f \in covers : f.file_stop_time = 0 \/ t < f.file_stop_time }
  IN  covers \cup (IF within = {} THEN {NoRecordingFile} ELSE {})

\* RecordingFileStream constructor
RecordingFileStream(f) ==
  [keyframe_begin_ |-> 1, position |-> 0, current_timestamp |-> f.startTime]

GetNextFileTimestamp(f) ==
  IF f.startTime + 1 > f.stopTime THEN f.startTime + 1 ELSE f.stopTime

SeekToKeyframe(f, rs, k) ==
  [rs EXCEPT !.position = f.keyframes[k].fileOffset,
             !.keyframe_begin_ = k,
             !.current_timestamp = f.keyframes[k].timestamp]

\* the stream after the call and whether there was a next keyframe
NextKeyframe(f, rs) ==
  IF Len(f.keyframes) - rs.keyframe_begin_ + 1 > 1
  THEN [rs |-> SeekToKeyframe(f, rs, rs.keyframe_begin_ + 1), next |-> TRUE]
  ELSE [rs |-> [rs EXCEPT !.current_timestamp = GetNextFileTimestamp(f)],
        next |-> FALSE]

RECURSIVE ReadGuacamoleInstruction(_, _)
\* the stream after the call and whether an instruction was read; the end of
\* the file is the kj::Exception the function swallows
ReadGuacamoleInstruction(f, rs) ==
  IF rs.position >= Len(f.messages) THEN [rs |-> rs, read |-> FALSE]
  ELSE LET m == f.messages[rs.position + 1]
           r1 == [rs EXCEPT !.position = @ + 1]
       IN  IF m.which = "CHAT_MESSAGE" THEN ReadGuacamoleInstruction(f, r1)
           ELSE IF m.which = "SYNC"
                THEN [rs |-> [r1 EXCEPT !.current_timestamp = m.sync],
                      read |-> TRUE]
                ELSE [rs |-> r1, read |-> TRUE]

\* the stream after the call and its result
SeekToTimestamp(f, rs, timestamp) ==
  IF timestamp < f.startTime \/ timestamp > f.stopTime
  THEN [rs |-> rs, ok |-> FALSE]
  ELSE LET begin == IF timestamp < rs.current_timestamp THEN 1
                    ELSE rs.keyframe_begin_
           r1 == [rs EXCEPT !.keyframe_begin_ = begin]
           \* lower_bound over the keyframes before keyframe_begin_, latest
           \* first: the latest of them that is not after the timestamp
           found == { i \in 1..(begin - 1) :
                        f.keyframes[i].timestamp <= timestamp }
       IN  IF found = {} THEN [rs |-> r1, ok |-> TRUE]
           ELSE LET i == CHOOSE x \in found : \A y \in found : y <= x
                IN  IF \/ r1.current_timestamp < f.keyframes[i].timestamp
                       \/ timestamp < r1.current_timestamp
                    THEN [rs |-> SeekToKeyframe(f, r1, i + 1), ok |-> TRUE]
                    ELSE [rs |-> r1, ok |-> TRUE]

RECURSIVE ReadFrames(_, _, _, _, _, _)
\* the do-while of the frames before the cursor: the stream after it and
\* whether at least one instruction was read
ReadFrames(f, rs, request, current_timestamp, initial_timestamp, one_frame) ==
  LET r == ReadGuacamoleInstruction(f, rs)
  IN  IF ~r.read THEN [rs |-> r.rs, one_frame |-> one_frame]
      ELSE IF \/ /\ request.timeInterval # 0
                 /\ r.rs.current_timestamp < current_timestamp
              \/ initial_timestamp = r.rs.current_timestamp
           THEN ReadFrames(f, r.rs, request, current_timestamp,
                           initial_timestamp, TRUE)
           ELSE [rs |-> r.rs, one_frame |-> TRUE]

\* one pass of the inner loop over the open file: the frames before the
\* cursor are read and a preview of them is queued
PlayRecording(p) ==
  LET f == p.file
      frames == ReadFrames(f, p.recording, p.request, p.current_timestamp,
                           p.recording.current_timestamp, FALSE)
      r1 == frames.rs
      q1 == QueuePreviewMessages(p.sent,
              <<RecordingPlaybackPreview(r1.current_timestamp)>>)
      c1 == r1.current_timestamp + p.request.timeInterval
      seek == SeekToTimestamp(f, r1, c1)
      nk == NextKeyframe(f, r1)
  IN  IF ~frames.one_frame
      THEN [p EXCEPT !.pc = "walk",
                     !.current_timestamp = GetNextFileTimestamp(f)]
      ELSE IF p.request.timeInterval # 0
      THEN [p EXCEPT !.pc = IF seek.ok THEN "play" ELSE "walk",
                     !.current_timestamp = c1,
                     !.recording = seek.rs,
                     !.sent = q1]
      ELSE [p EXCEPT !.pc = IF nk.next THEN "play" ELSE "walk",
                     !.current_timestamp = nk.rs.current_timestamp,
                     !.recording = nk.rs,
                     !.sent = q1]

sendResult(p, result) ==
  [p EXCEPT !.pc = "done",
            !.sent = QueuePreviewMessages(@, <<RecordingPlaybackResult(result)>>)]

\* no request so far
NoPreview ==
  [pc |-> "idle", request |-> RecordingPreviewRequest(0, 0, 0),
   current_timestamp |-> 0, file |-> NoRecordingFile,
   recording |-> RecordingFileStream(NoRecordingFile), sent |-> <<>>]

\* a VM that never recorded
InitPreview ==
  /\ recordings = {}
  /\ preview = NoPreview

\* RECORDING_PREVIEW_REQUEST of an admin, up to the outer loop
StartPreviews(request) ==
  LET p == [preview EXCEPT !.request = request]
  IN  IF request.startTime = 0 \/ request.stopTime = 0
      THEN sendResult(p, FALSE)
      ELSE [p EXCEPT !.pc = "walk", !.current_timestamp = request.startTime]

\* one pass of the outer loop: the file of the cursor is looked up and opened
PreviewWalkFile ==
  /\ preview.pc = "walk"
  /\ preview.current_timestamp < preview.request.stopTime
  /\ \E f \in GetRecordingFilePath(preview.current_timestamp) :
       preview' =
         IF f.path = <<>> THEN sendResult(preview, FALSE)
         ELSE IF ~f.is_open
         THEN IF f.file_stop_time # 0
              THEN [preview EXCEPT !.current_timestamp = f.file_stop_time]
              ELSE sendResult([preview EXCEPT !.current_timestamp = 0], FALSE)
         ELSE IF ~f.readable
         THEN \* the constructor throws
              [preview EXCEPT !.current_timestamp =
                 IF f.file_stop_time # 0 THEN f.file_stop_time
                 ELSE f.file_start_time + 1]
         ELSE LET rs == RecordingFileStream(f)
                  seek == SeekToTimestamp(f, rs, preview.current_timestamp)
              IN  [preview EXCEPT !.pc = "play", !.file = f,
                                  !.recording = seek.rs]
  /\ UNCHANGED <<recordings, notPreview>>

\* one pass of the inner loop; the loop ends when the cursor reached the
\* stop time of the request
PreviewPlayFrame ==
  /\ preview.pc = "play"
  /\ preview' = IF preview.current_timestamp < preview.request.stopTime
                THEN PlayRecording(preview)
                ELSE [preview EXCEPT !.pc = "walk"]
  /\ UNCHANGED <<recordings, notPreview>>

\* the outer loop ends: the cursor reached the stop time of the request
PreviewWalkEnds ==
  /\ preview.pc = "walk"
  /\ ~(preview.current_timestamp < preview.request.stopTime)
  /\ preview' = sendResult(preview, TRUE)
  /\ UNCHANGED <<recordings, notPreview>>

\* the files of a VM: one file, or a closed file and the file after it
Catalogues ==
  { {f} : f \in RecordingFiles } \cup
  { {f, g} : f \in { x \in RecordingFilesAt(1) : x.stopTime = 3 },
             g \in RecordingFilesAt(3) }

\* an admin asks for the previews of the VM
SendRecordingPreviews ==
  /\ preview.pc = "idle"
  /\ \E s \in StartTimes, e \in StopTimes, i \in TimeIntervals :
       preview' = StartPreviews(RecordingPreviewRequest(s, e, i))
  /\ UNCHANGED <<recordings, notPreview>>

NextPreview ==
  \/ SendRecordingPreviews
  \/ PreviewWalkFile
  \/ PreviewPlayFrame
  \/ PreviewWalkEnds

\* C22: every preview request terminates: its walk ends with a
\* RecordingPlaybackResult
PreviewTerminates == (preview.pc = "walk") ~> (preview.pc = "done")

\* C23: when the request is answered RecordingPlaybackResult(true), the
\* timestamps of its previews are non-decreasing in the order they were sent
\* and each lies between the start and the stop time of the request
PreviewTimestampsInRange ==
  ( /\ preview.sent # <<>>
    /\ preview.sent[Len(preview.sent)] = RecordingPlaybackResult(TRUE) )
  => /\ \A i \in 1..(Len(preview.sent) - 1) :
          /\ preview.request.startTime <= preview.sent[i].timestamp
          /\ preview.sent[i].timestamp <= preview.request.stopTime
     /\ \A i \in 1..(Len(preview.sent) - 2) :
          preview.sent[i].timestamp <= preview.sent[i + 1].timestamp

\* C24: a RecordingPlaybackResult(false) is the only message of its request:
\* no preview goes before it
FalseResultAlone ==
  (\E i \in 1..Len(preview.sent) :
      preview.sent[i] = RecordingPlaybackResult(FALSE))
  => preview.sent = <<RecordingPlaybackResult(FALSE)>>

(***************************************************************************)
(* SERIALIZATION OWNERS (the StrandGuard members of CollabVmSocket and of  *)
(* CollabVmServer).  StrandGuard is not part of the source: an owner is a  *)
(* FIFO of tasks, the threads of the pool take the task at the head of an  *)
(* owner that runs no task, and run it to completion.                      *)
(***************************************************************************)
\* StrandGuard members: one of a socket, one of the server
Owners == {"send_queue_", "virtual_machines_"}

\* the threads of the pool
PoolThreads == {"w1", "w2"}

\* where tasks are dispatched from: a socket's read handler, a timer
Sources == {"socket", "timer"}

\* tasks one source dispatches
MaxTasks == 2

OwnerTask(owner, source, number) ==
  [owner |-> owner, source |-> source, number |-> number]

\* a pool thread that executes no task
NoOwnerTask == OwnerTask("", "", 0)

InitOwner ==
  /\ owner_queue = [o \in Owners |-> <<>>]
  /\ owner_exec = [w \in PoolThreads |-> NoOwnerTask]
  /\ owner_log = [o \in Owners |-> <<>>]
  /\ submitted = [s \in Sources |-> 0]

\* the owner runs a task that started and did not finish
OwnerBusyNever(o) == FALSE

OwnerBusy(o) == \E w \in PoolThreads : owner_exec[w].owner = o

\* StrandGuard::dispatch from a source: the task is enqueued
OwnerDispatch(s, o) ==
  /\ submitted[s] < MaxTasks
  /\ submitted' = [submitted EXCEPT ![s] = @ + 1]
  /\ owner_queue' = [owner_queue EXCEPT
                       ![o] = Append(@, OwnerTask(o, s, submitted[s] + 1))]
  /\ UNCHANGED <<owner_exec, owner_log, notOwner>>

\* an idle thread of the pool starts the task at the head of an owner
OwnerRunTask(w, o) ==
  /\ owner_exec[w] = NoOwnerTask
  /\ owner_queue[o] # <<>>
  /\ ~OwnerBusy(o)
  /\ owner_exec' = [owner_exec EXCEPT ![w] = Head(owner_queue[o])]
  /\ owner_queue' = [owner_queue EXCEPT ![o] = Tail(@)]
  /\ owner_log' = [owner_log EXCEPT ![o] = Append(@, Head(owner_queue[o]))]
  /\ UNCHANGED <<submitted, notOwner>>

\* the task returns
OwnerTaskReturns(w) ==
  /\ owner_exec[w] # NoOwnerTask
  /\ owner_exec' = [owner_exec EXCEPT ![w] = NoOwnerTask]
  /\ UNCHANGED <<owner_queue, owner_log, submitted, notOwner>>

NextOwner ==
  \/ \E s \in Sources, o \in Owners : OwnerDispatch(s, o)
  \/ \E w \in PoolThreads, o \in Owners : OwnerRunTask(w, o)
  \/ \E w \in PoolThreads : OwnerTaskReturns(w)

AuthSockets == {"p", "q"}

\* accounts of the database; the first is an admin
AuthAccounts == {"root", "bob"}

AuthAdmins == {"root"}

\* number of client messages in one run
MaxAuthEvents == 3

\* LoginResponse::LoginResult as Database::Login returns it
LoginResults ==
  {"SUCCESS", "INVALID_USERNAME", "INVALID_PASSWORD", "ACCOUNT_DISABLED",
   "TWO_FACTOR_REQUIRED"}

\* RegisterAccountResponse::RegisterAccountError of create_account; NONE is
\* the return without a response when registration is not allowed
RegisterResults ==
  {"SUCCESS", "INVITE_INVALID", "USERNAME_INVALID", "PASSWORD_INVALID",
   "TOTP_ERROR", "USERNAME_TAKEN", "NONE"}

CaptchaCall(kind, sock, username) ==
  [kind |-> kind, sock |-> sock, username |-> username]

AuthTask(kind, sock, username, is_valid) ==
  [kind |-> kind, sock |-> sock, username |-> username, is_valid |-> is_valid]

\* a new CollabVmSocket, and what happened to it: the results of its logins
\* and registrations, and whether one of them was a success
NewAuthSocket ==
  [is_logged_in_ |-> FALSE, is_admin_ |-> FALSE, totp_key_ |-> FALSE,
   results |-> {}, success |-> FALSE, two_factor_responses |-> 0]

InitAuth ==
  /\ auth = [s \in AuthSockets |-> NewAuthSocket]
  /\ captcha_calls = {}
  /\ login_strand_ = <<>>
  /\ settings_tasks = <<>>
  /\ sessions_tasks = <<>>
  /\ auth_up = TRUE
  /\ auth_events = 0

\* the response with a result code is queued for the socket
AuthReply(a, s, result) ==
  [a EXCEPT ![s].results = @ \cup {result}]

\* HandleMessage LOGIN_REQUEST: the captcha token goes to the verifier
AuthLoginRequest(s, u) ==
  /\ auth_up /\ auth_events < MaxAuthEvents
  /\ CaptchaCall("login", s, u) \notin captcha_calls
  /\ captcha_calls' = captcha_calls \cup {CaptchaCall("login", s, u)}
  /\ auth_events' = auth_events + 1
  /\ UNCHANGED <<auth, login_strand_, settings_tasks, sessions_tasks, auth_up,
                 notAuth>>

\* HandleMessage ACCOUNT_REGISTRATION_REQUEST: with an invite the account is
\* created without a captcha
AuthRegistrationRequest(s, u, invite) ==
  /\ auth_up /\ auth_events < MaxAuthEvents
  /\ auth_events' = auth_events + 1
  /\ IF invite
     THEN /\ settings_tasks' =
               Append(settings_tasks, AuthTask("register", s, u, FALSE))
          /\ UNCHANGED captcha_calls
     ELSE /\ CaptchaCall("register", s, u) \notin captcha_calls
          /\ captcha_calls' = captcha_calls \cup {CaptchaCall("register", s, u)}
          /\ UNCHANGED settings_tasks
  /\ UNCHANGED <<auth, login_strand_, sessions_tasks, auth_up, notAuth>>

\* the callback of CaptchaVerifier::Verify
AuthCaptchaVerified ==
  /\ auth_up
  /\ \E call \in captcha_calls, is_valid \in BOOLEAN :
       /\ captcha_calls' = captcha_calls \ {call}
       /\ login_strand_' =
            IF call.kind = "login" /\ is_valid
            THEN Append(login_strand_,
                        AuthTask("login", call.sock, call.username, is_valid))
            ELSE login_strand_
       /\ settings_tasks' =
            IF call.kind = "register" /\ is_valid
            THEN Append(settings_tasks,
                        AuthTask("register", call.sock, call.username, is_valid))
            ELSE settings_tasks
       /\ auth' = IF is_valid THEN auth
                  ELSE AuthReply(auth, call.sock, "INVALID_CAPTCHA_TOKEN")
  /\ UNCHANGED <<sessions_tasks, auth_up, auth_events, notAuth>>

\* the login lambda also mints a session when a second factor is required
LoginMintsSessionEarly(login_result) ==
  login_result \in {"SUCCESS", "TWO_FACTOR_REQUIRED"}

\* login_result == LoginResult::SUCCESS
LoginMintsSession(login_result) == login_result = "SUCCESS"

\* the login lambda on login_strand_: Database::Login answers with any result
AuthRunLoginTask ==
  /\ auth_up
  /\ login_strand_ # <<>>
  /\ login_strand_' = Tail(login_strand_)
  /\ \E login_result \in LoginResults :
       LET task == Head(login_strand_)
           s == task.sock
           seen == [auth EXCEPT
                      ![s].success = @ \/ (task.is_valid /\ login_result = "SUCCESS")]
       IN  IF LoginMintsSession(login_result)
           THEN /\ sessions_tasks' = Append(sessions_tasks, task)
                /\ auth' = seen
           ELSE /\ sessions_tasks' = sessions_tasks
                /\ auth' = AuthReply(
                     [seen EXCEPT ![s].totp_key_ =
                        IF login_result = "TWO_FACTOR_REQUIRED" THEN TRUE ELSE @],
                     s, login_result)
  /\ UNCHANGED <<captcha_calls, settings_tasks, auth_up, auth_events, notAuth>>

\* HandleMessage TWO_FACTOR_RESPONSE: the result of ValidateTotp is dropped;
\* totp_key_.front() of an empty key is undefined: nothing happens or the
\* process ends
AuthTwoFactorResponse(s) ==
  /\ auth_up /\ auth_events < MaxAuthEvents
  /\ auth_events' = auth_events + 1
  /\ auth' = [auth EXCEPT ![s].two_factor_responses = 1]
  /\ \E ends \in BOOLEAN :
       /\ ends => ~auth[s].totp_key_
       /\ auth_up' = ~ends
  /\ UNCHANGED <<captcha_calls, login_strand_, settings_tasks, sessions_tasks,
                 notAuth>>

\* the create_account lambda on settings_: the checks and
\* Database::CreateAccount answer with any result
AuthRunSettingsTask ==
  /\ auth_up
  /\ settings_tasks # <<>>
  /\ settings_tasks' = Tail(settings_tasks)
  /\ \E register_result \in RegisterResults :
       LET task == Head(settings_tasks)
           s == task.sock
       IN  IF register_result = "SUCCESS"
           THEN /\ sessions_tasks' = Append(sessions_tasks, task)
                /\ auth' = [auth EXCEPT ![s].success = TRUE]
           ELSE /\ sessions_tasks' = sessions_tasks
                /\ auth' = IF register_result = "NONE" THEN auth
                           ELSE AuthReply(auth, s, register_result)
  /\ UNCHANGED <<captcha_calls, login_strand_, auth_up, auth_events, notAuth>>

\* the lambda of CreateSession on sessions_: Database::CreateSession answers
\* with the username and the admin flag of the account, or with no username
AuthRunSessionsTask ==
  /\ auth_up
  /\ sessions_tasks # <<>>
  /\ sessions_tasks' = Tail(sessions_tasks)
  /\ \E found \in BOOLEAN :
       LET task == Head(sessions_tasks)
           s == task.sock
       IN  auth' = IF ~found THEN auth
                   ELSE AuthReply(
                          [auth EXCEPT
                             ![s].is_logged_in_ = TRUE,
                             ![s].is_admin_ = task.username \in AuthAdmins],
                          s, "session")
  /\ UNCHANGED <<captcha_calls, login_strand_, settings_tasks, auth_up,
                 auth_events, notAuth>>

NextAuth ==
  \/ \E s \in AuthSockets, u \in AuthAccounts : AuthLoginRequest(s, u)
  \/ \E s \in AuthSockets, u \in AuthAccounts, invite \in BOOLEAN :
       AuthRegistrationRequest(s, u, invite)
  \/ \E s \in AuthSockets : AuthTwoFactorResponse(s)
  \/ AuthCaptchaVerified
  \/ AuthRunLoginTask
  \/ AuthRunSettingsTask
  \/ AuthRunSessionsTask

\* C26: a session is logged in (or admin) only after a login of it that the
\* database answered SUCCESS behind a valid captcha token, or after a
\* successful account creation; a session whose logins were answered
\* INVALID_CAPTCHA_TOKEN, TWO_FACTOR_REQUIRED or another failure code, with
\* or without a two-factor-response, is not logged in
LoggedInOnlyAfterSuccess ==
  \A s \in AuthSockets :
    (auth[s].is_logged_in_ \/ auth[s].is_admin_) => auth[s].success

\* one session is logged in as admin after a login, while the other was
\* asked for a second factor, answered it and is not logged in
LoginWitness ==
  /\ auth["p"].is_logged_in_ /\ auth["p"].is_admin_
  /\ "TWO_FACTOR_REQUIRED" \in auth["q"].results
  /\ auth["q"].two_factor_responses = 1
  /\ ~auth["q"].is_logged_in_
  /\ captcha_calls = {} /\ login_strand_ = <<>> /\ sessions_tasks = <<>>

(***************************************************************************)
(* VM INFO LISTS (VirtualMachinesList: AddAdminVirtualMachine,             *)
(* RemoveAdminVirtualMachine, UpdateVirtualMachineInfoList,                *)
(* UpdateVirtualMachineInfo, ResizableList; HandleMessage CREATE_VM,       *)
(* DELETE_VM, UPDATE_VM_CONFIG).  An entry of a list is the id of its VM,  *)
(* or 0 when it was allocated and not populated.  AdminVirtualMachine is   *)
(* not part of the source: a VM answers SetVmInfo with its admin info and, *)
(* if it is public, its public info, and UpdateSettings with whether the   *)
(* settings are valid; the answers come back in any order.                 *)
(***************************************************************************)
\* ids of the VMs the constructor reads from the database
InfoVmIds == {1, 2}

\* ids Database::GetNewVmId hands out afterwards
NewVmIds == {3}

AllVmIds == InfoVmIds \cup NewVmIds

\* number of admin requests and timer expiries in one run
MaxInfoEvents == 3

\* the AdminVm of a VM
AdminVm == [has_vm_info |-> FALSE, pending_admin_vm_info |-> FALSE,
            pending_vm_info |-> FALSE]

InfoTask(op, id, arg) == [op |-> op, id |-> id, arg |-> arg]

VmCall(kind, id) == [kind |-> kind, id |-> id]

InfoEvent(op, id, existed, touched) ==
  [op |-> op, id |-> id, existed |-> existed, touched |-> touched,
   registry |-> {}, reporters |-> {}, admin |-> <<>>, public |-> <<>>,
   broadcasts |-> 0, outstanding |-> 0]

\* the ids in ascending order
RECURSIVE SortedIds(_)
SortedIds(S) ==
  IF S = {} THEN <<>>
  ELSE LET m == CHOOSE x \in S : \A y \in S : x <= y
       IN  <<m>> \o SortedIds(S \ {m})

\* VirtualMachinesList constructor: one entry of the admin list per VM
InitInfo ==
  /\ vml = [admin_virtual_machines_ |->
              [id \in AllVmIds |-> IF id \in InfoVmIds THEN "vm" ELSE "absent"],
            vms |-> [id \in AllVmIds |-> AdminVm],
            admin_vm_info_list_ |-> SortedIds(InfoVmIds),
            vm_info_list_ |-> <<>>,
            pending_vm_info_requests_ |-> 0,
            pending_vm_info_updates_ |-> 0]
  /\ vml_strand = <<>>
  /\ vm_calls = <<>>
  /\ info_event = InfoEvent("", 0, FALSE, FALSE)
  /\ info_up = TRUE
  /\ info_events = 0

\* the keys of admin_virtual_machines_, and those with an AdminVm
RegistryKeys(l) == { id \in AllVmIds : l.admin_virtual_machines_[id] # "absent" }

RegistryVms(l) == { id \in AllVmIds : l.admin_virtual_machines_[id] = "vm" }

\* ResizableList::Reset(capacity)
ListReset(capacity) == [i \in 1..capacity |-> 0]

\* ResizableList::RemoveFirst: the list without its entries of the id.  When
\* not exactly one entry matches, remove_copy_if runs over the end of the new
\* list: the list is cut to its new size or the process ends
ListRemoveFirst(list, id) ==
  LET kept == SelectSeq(list, LAMBDA e : e # id)
  IN  IF Len(list) = 0 THEN {[list |-> list, up |-> FALSE]}
      ELSE IF Len(kept) = Len(list) - 1 THEN {[list |-> kept, up |-> TRUE]}
      ELSE IF Len(kept) < Len(list) - 1
           THEN {[list |-> kept \o ListReset(Len(list) - 1 - Len(kept)),
                  up |-> TRUE]}
           ELSE {[list |-> SubSeq(kept, 1, Len(list) - 1), up |-> TRUE],
                 [list |-> list, up |-> FALSE]}

\* the rebuild of both lists by the last callback of a bulk update: the
\* registry is walked, the VMs without pending admin info are skipped
RebuildLists(l) ==
  LET listed == { id \in RegistryVms(l) : l.vms[id].pending_admin_vm_info }
      public == { id \in listed : l.vms[id].pending_vm_info }
      admin_list == ListReset(Cardinality(RegistryKeys(l)))
      vm_list == ListReset(l.pending_vm_info_updates_)
      Fill(list, ids) ==
        [i \in 1..Len(list) |->
           IF i <= Len(SortedIds(ids)) THEN SortedIds(ids)[i] ELSE list[i]]
  IN  [l EXCEPT
         !.admin_vm_info_list_ = Fill(admin_list, listed),
         !.vm_info_list_ = Fill(vm_list, public),
         !.vms = [id \in AllVmIds |->
                    IF id \in listed
                    THEN [l.vms[id] EXCEPT !.pending_admin_vm_info = FALSE,
                                           !.pending_vm_info = FALSE]
                    ELSE l.vms[id]]]

InfoAdminRequest ==
  /\ info_up
  /\ info_events < MaxInfoEvents
  /\ info_events' = info_events + 1

\* HandleMessage CREATE_VM of an admin
InfoCreateVm ==
  /\ InfoAdminRequest
  /\ vml_strand' = Append(vml_strand, InfoTask("create", 0, FALSE))
  /\ UNCHANGED <<vml, vm_calls, info_event, info_up, notInfo>>

\* HandleMessage DELETE_VM of an admin
InfoDeleteVm(id) ==
  /\ InfoAdminRequest
  /\ vml_strand' = Append(vml_strand, InfoTask("delete", id, FALSE))
  /\ UNCHANGED <<vml, vm_calls, info_event, info_up, notInfo>>

\* HandleMessage UPDATE_VM_CONFIG of an admin
InfoUpdateVmConfig(id) ==
  /\ InfoAdminRequest
  /\ vml_strand' = Append(vml_strand, InfoTask("update_config", id, FALSE))
  /\ UNCHANGED <<vml, vm_calls, info_event, info_up, notInfo>>

\* StartVmInfoUpdate: vm_info_timer_ expires without error
InfoTimerExpires ==
  /\ InfoAdminRequest
  /\ vml_strand' = Append(vml_strand, InfoTask("update_list", 0, FALSE))
  /\ UNCHANGED <<vml, vm_calls, info_event, info_up, notInfo>>

\* a VM answers a call: the wrapped callback is dispatched to virtual_machines_
InfoVmAnswers ==
  /\ info_up
  /\ \E i \in 1..Len(vm_calls), arg \in BOOLEAN :
       /\ vml_strand' =
            Append(vml_strand, InfoTask(vm_calls[i].kind, vm_calls[i].id, arg))
       /\ vm_calls' = SubSeq(vm_calls, 1, i - 1)
                      \o SubSeq(vm_calls, i + 1, Len(vm_calls))
  /\ UNCHANGED <<vml, info_event, info_up, info_events, notInfo>>

\* the effect of a task: the list after it, the calls it makes, whether the
\* process survives it, and what the history keeps of it
InfoEffect(l, calls, up, event) ==
  [vml |-> l, calls |-> calls, up |-> up, event |-> event]

\* CREATE_VM: AddAdminVirtualMachine with a new id
CreateVmTask(l) ==
  LET free == { id \in NewVmIds : l.admin_virtual_machines_[id] = "absent" }
      id == CHOOSE x \in free : \A y \in free : x <= y
  IN  IF free = {}
      THEN {InfoEffect(l, <<>>, TRUE, InfoEvent("create", 0, FALSE, FALSE))}
      ELSE {InfoEffect(
              [l EXCEPT !.admin_virtual_machines_[id] = "vm",
                        !.vms[id] = AdminVm,
                        !.admin_vm_info_list_ = Append(@, id)],
              <<>>, TRUE, InfoEvent("create", id, FALSE, TRUE))}

\* DELETE_VM: RemoveAdminVirtualMachine; a null entry of the registry is
\* dereferenced
DeleteVmTask(l, id) ==
  IF l.admin_virtual_machines_[id] = "absent"
  THEN {InfoEffect(l, <<>>, TRUE, InfoEvent("delete", id, FALSE, FALSE))}
  ELSE IF l.admin_virtual_machines_[id] = "null"
  THEN {InfoEffect(l, <<>>, FALSE, InfoEvent("delete", id, TRUE, TRUE))}
  ELSE { InfoEffect(
           [l EXCEPT !.admin_virtual_machines_[id] = "absent",
                     !.admin_vm_info_list_ = r.list],
           <<>>, r.up, InfoEvent("delete", id, TRUE, TRUE)) :
         r \in ListRemoveFirst(l.admin_vm_info_list_, id) }

\* UpdateVirtualMachineInfoList: one SetVmInfo per VM of the registry
UpdateVirtualMachineInfoList(l) ==
  IF l.pending_vm_info_requests_ # 0
  THEN {InfoEffect(l, <<>>, TRUE, InfoEvent("update_list", 0, FALSE, FALSE))}
  ELSE IF RegistryKeys(l) # RegistryVms(l)
  THEN {InfoEffect(l, <<>>, FALSE, InfoEvent("update_list", 0, FALSE, TRUE))}
  ELSE {InfoEffect(
          [l EXCEPT !.pending_vm_info_requests_ = Cardinality(RegistryKeys(l)),
                    !.pending_vm_info_updates_ = 0],
          [i \in 1..Cardinality(RegistryVms(l)) |->
             VmCall("bulk_info", SortedIds(RegistryVms(l))[i])],
          TRUE, InfoEvent("update_list", 0, FALSE, TRUE))}

\* the wrapped callback of UpdateVirtualMachineInfoList for one VM, which
\* holds the AdminVm of the VM; the last one rebuilds and broadcasts the lists
BulkInfoCallback(l, id, has_public) ==
  LET l1 == [l EXCEPT
               !.vms[id].has_vm_info = has_public,
               !.vms[id].pending_admin_vm_info = TRUE,
               !.vms[id].pending_vm_info = has_public,
               !.pending_vm_info_updates_ = IF has_public THEN @ + 1 ELSE @,
               !.pending_vm_info_requests_ = @ - 1]
      l2 == RebuildLists(l1)
      existed == l.admin_virtual_machines_[id] = "vm"
      reporters == { v \in RegistryVms(l1) :
                       /\ l1.vms[v].pending_admin_vm_info
                       /\ l1.vms[v].pending_vm_info }
  IN  IF l1.pending_vm_info_requests_ # 0
      THEN {InfoEffect(l1, <<>>, TRUE, InfoEvent("bulk_info", id, existed, TRUE))}
      ELSE IF RegistryKeys(l1) # RegistryVms(l1)
      THEN {InfoEffect(l1, <<>>, FALSE, InfoEvent("bulk_info", id, existed, TRUE))}
      ELSE { InfoEffect(l2, <<>>, up,
               [InfoEvent("bulk_done", id, existed, TRUE) EXCEPT
                  !.registry = RegistryVms(l1),
                  !.reporters = reporters,
                  !.admin = l2.admin_vm_info_list_,
                  !.public = l2.vm_info_list_,
                  !.broadcasts = 1,
                  !.outstanding = l1.pending_vm_info_requests_]) :
             \* more public infos than entries: setWithCaveats writes past
             \* the end of the list
             up \in IF Cardinality(reporters) > l1.pending_vm_info_updates_
                    THEN BOOLEAN ELSE {TRUE} }

\* UPDATE_VM_CONFIG on virtual_machines_: UpdateSettings of the VM
UpdateVmConfigTask(l, id) ==
  IF l.admin_virtual_machines_[id] # "vm"
  THEN {InfoEffect(l, <<>>, l.admin_virtual_machines_[id] = "absent",
                   InfoEvent("update_config", id, FALSE, FALSE))}
  ELSE {InfoEffect(l, <<VmCall("config_done", id)>>, TRUE,
                   InfoEvent("update_config", id, TRUE, FALSE))}

\* the wrapped completion of UpdateSettings: the VM is looked up again before
\* UpdateVirtualMachineInfo calls SetVmInfo
UpdateVmConfigCompletion(l, id, is_valid_settings) ==
  IF ~is_valid_settings \/ l.admin_virtual_machines_[id] = "absent"
  THEN {InfoEffect(l, <<>>, TRUE,
                   InfoEvent("config_done", id,
                             l.admin_virtual_machines_[id] # "absent", FALSE))}
  ELSE IF l.admin_virtual_machines_[id] = "null"
  THEN {InfoEffect(l, <<>>, FALSE, InfoEvent("config_done", id, TRUE, FALSE))}
  ELSE {InfoEffect(l, <<VmCall("single_info", id)>>, TRUE,
                   InfoEvent("config_done", id, TRUE, FALSE))}

\* the wrapped callback of UpdateVirtualMachineInfo.  admin_virtual_machines_
\* [vm_id] of a deleted VM inserts a null entry, which is dereferenced: the
\* process ends or goes on with the null entry in the registry
UpdateVirtualMachineInfoCallback(l, id, has_public) ==
  LET vm_data == l.vms[id]
      existed == l.admin_virtual_machines_[id] # "absent"
      ev(touched) == InfoEvent("single_info", id, existed, touched)
  IN  IF l.admin_virtual_machines_[id] # "vm"
      THEN { InfoEffect([l EXCEPT !.admin_virtual_machines_[id] = "null"],
                        <<>>, up, ev(TRUE)) : up \in BOOLEAN }
      ELSE IF vm_data.pending_admin_vm_info
      THEN {InfoEffect([l EXCEPT !.vms[id].pending_vm_info = has_public],
                       <<>>, TRUE, ev(TRUE))}
      ELSE IF vm_data.has_vm_info /\ ~has_public
      THEN { InfoEffect([l EXCEPT !.vm_info_list_ = r.list,
                                  !.vms[id].has_vm_info = FALSE],
                        <<>>, r.up, ev(TRUE)) :
             r \in ListRemoveFirst(l.vm_info_list_, id) }
      ELSE IF ~vm_data.has_vm_info /\ has_public
      THEN {InfoEffect([l EXCEPT !.vm_info_list_ = Append(@, id),
                                 !.vms[id].has_vm_info = TRUE],
                       <<>>, TRUE, ev(TRUE))}
      ELSE {InfoEffect(l, <<>>, TRUE, ev(TRUE))}

\* run the task at the head of virtual_machines_
RunInfoTask ==
  /\ info_up
  /\ vml_strand # <<>>
  /\ vml_strand' = Tail(vml_strand)
  /\ LET task == Head(vml_strand)
         effects ==
           CASE task.op = "create" -> CreateVmTask(vml)
             [] task.op = "delete" -> DeleteVmTask(vml, task.id)
             [] task.op = "update_list" -> UpdateVirtualMachineInfoList(vml)
             [] task.op = "bulk_info" -> BulkInfoCallback(vml, task.id, task.arg)
             [] task.op = "update_config" -> UpdateVmConfigTask(vml, task.id)
             [] task.op = "config_done" ->
                  UpdateVmConfigCompletion(vml, task.id, task.arg)
             [] task.op = "single_info" ->
                  UpdateVirtualMachineInfoCallback(vml, task.id, task.arg)
     IN  \E e \in effects :
           /\ vml' = e.vml
           /\ vm_calls' = vm_calls \o e.calls
           /\ info_up' = e.up
           /\ info_event' = e.event
  /\ UNCHANGED <<info_events, notInfo>>

NextInfo ==
  \/ InfoCreateVm
  \/ \E id \in AllVmIds : InfoDeleteVm(id)
  \/ \E id \in AllVmIds : InfoUpdateVmConfig(id)
  \/ InfoTimerExpires
  \/ InfoVmAnswers
  \/ RunInfoTask

\* the number of entries of a list that are populated with the id
Populated(list, id) == Cardinality({ i \in 1..Len(list) : list[i] = id })

\* C29: when the last response of a bulk update is handled, the rebuilt
\* admin list has exactly one populated entry for each VM of the registry at
\* that moment, the public list exactly one for each of those VMs that
\* reported public info, and the lists are broadcast once, with no response
\* outstanding
BulkUpdateListsExact ==
  info_event.op = "bulk_done" =>
    /\ \A id \in AllVmIds :
         Populated(info_event.admin, id) =
           (IF id \in info_event.registry THEN 1 ELSE 0)
    /\ \A id \in AllVmIds :
         Populated(info_event.public, id) =
           (IF id \in info_event.reporters THEN 1 ELSE 0)
    /\ info_event.broadcasts = 1
    /\ info_event.outstanding = 0

\* C30: a continuation that comes back to virtual_machines_ for a VM that was
\* deleted meanwhile (the completion of update-vm-config, the callback of the
\* single-VM info update) touches no registry entry and no list
DeletedVmContinuationNoOp ==
  ( /\ info_event.op \in {"config_done", "single_info"}
    /\ ~info_event.existed )
  => ~info_event.touched

(***************************************************************************)
(* MESSAGE FILTER OF THE RECORDING (RecordingController::WriteMessage,     *)
(* IsMessageRecorded and the settings copy of SetRecordingSettings).  The  *)
(* schema of ServerSetting::Recordings is not part of the source: the      *)
(* values a default-constructed Reader yields for the capture flags are    *)
(* any.  The clocks stand still here, no timer expires.                    *)
(***************************************************************************)
\* the capture flags of ServerSetting::Recordings
CaptureFlags(display, input, audio) ==
  [captureDisplay |-> display, captureInput |-> input, captureAudio |-> audio]

AllCaptureFlags ==
  { CaptureFlags(d, i, a) : d \in BOOLEAN, i \in BOOLEAN, a \in BOOLEAN }

\* ServerSetting::Recordings as the VM passes it on
RecordingSettings(flags, fileDuration, keyframeInterval) ==
  [flags |-> flags, fileDuration |-> fileDuration,
   keyframeInterval |-> keyframeInterval]

\* the server messages a VM hands to WriteMessage: guacamole instructions
\* (IMG stands for every instruction without a case of its own) and a
\* message that is no guacamole instruction
GuacInstructions == {"SYNC", "AUDIO", "MOUSE", "KEY", "IMG"}
ServerMessages == GuacInstructions \cup {"CHAT_MESSAGE"}

\* the file durations of the settings passed on here; keyframes are off
FilterDurations == {0, 2}

WriteEvent(message, recording, given, persisted) ==
  [message |-> message, recording |-> recording, given |-> given,
   persisted |-> persisted]

\* the members as the constructor leaves them: settings_ is a
\* default-constructed Reader, whose getters yield the defaults of the schema
InitFilterWith(defaults) ==
  /\ settings_ \in defaults
  /\ settings_message_builder_ = <<>>
  /\ write_event = WriteEvent("", FALSE, <<>>, FALSE)

InitFilter == InitFilterWith({CaptureFlags(FALSE, FALSE, FALSE)})

IsMessageRecorded(flags, message) ==
  IF message \notin GuacInstructions THEN TRUE
  ELSE CASE message = "SYNC" ->
              flags.captureDisplay \/ flags.captureInput \/ flags.captureAudio
         [] message = "AUDIO" -> flags.captureAudio
         [] message \in {"MOUSE", "KEY"} -> flags.captureInput
         [] OTHER -> flags.captureDisplay

\* what UNCHANGED notRec and notFilter have in common
notRecFilter == <<sendVars, userVars, turnVars, ipVars, chanVars, chatVars,
                  adminVars, renameVars, vmVars, previewVars, ownerVars,
                  authVars, infoVars, vmsetVars, inviteVars, joinVars>>
notVmset == <<sendVars, userVars, turnVars, ipVars, chanVars, chatVars,
              adminVars, renameVars, vmVars, recVars, previewVars, ownerVars,
              authVars, infoVars, filterVars, inviteVars, joinVars>>
notInvite == <<sendVars, userVars, turnVars, ipVars, chanVars, chatVars,
               adminVars, renameVars, vmVars, recVars, previewVars, ownerVars,
               authVars, infoVars, filterVars, vmsetVars, joinVars>>
notJoin == <<sendVars, userVars, turnVars, ipVars, chanVars, chatVars,
             adminVars, renameVars, vmVars, recVars, previewVars, ownerVars,
             authVars, infoVars, filterVars, vmsetVars, inviteVars>>

\* SetRecordingSettings: the settings are copied into
\* settings_message_builder_, the durations are taken over and the timers
\* follow; settings_ is not assigned
FilterSetRecordingSettings ==
  /\ RecCall
  /\ \E flags \in AllCaptureFlags, d \in FilterDurations, created \in BOOLEAN :
       /\ settings_message_builder_' = <<RecordingSettings(flags, d, 0)>>
       /\ rc' = SetRecordingSettings(rc, rec_now, d, 0, created)
       /\ rec_event' = RecEvent("settings", "", IsRecording(rc),
                                rc.stop_timer_.expiry - rec_now, d,
                                rc'.closed # rc.closed, rc' = rc)
  /\ UNCHANGED <<settings_, write_event, rec_now>>
  /\ UNCHANGED notRecFilter

\* WriteMessage: the message is written to the file stream when
\* IsMessageRecorded says so; a closed stream takes nothing
FilterWriteMessage ==
  /\ \E message \in ServerMessages :
       write_event' = WriteEvent(message, IsRecording(rc),
                                 [i \in DOMAIN settings_message_builder_ |->
                                    settings_message_builder_[i].flags],
                                 /\ IsMessageRecorded(settings_, message)
                                 /\ IsRecording(rc))
  /\ UNCHANGED <<settings_, settings_message_builder_>>
  /\ UNCHANGED notFilter

NextFilter ==
  \/ FilterSetRecordingSettings
  \/ FilterWriteMessage
  \/ RecStart
  \/ RecStop

\* C32: once the settings s were passed on and the controller records, a
\* message handed to WriteMessage is persisted exactly when the capture
\* flags of s say so: SYNC iff any flag is on, AUDIO iff capture-audio, MOUSE
\* and KEY iff capture-input, any other instruction iff capture-display, a
\* message that is no guacamole instruction always
FilterFollowsSettings ==
  ( /\ write_event.message # ""
    /\ write_event.recording
    /\ write_event.given # <<>> ) =>
    LET flags == write_event.given[1]
        m == write_event.message
    IN  write_event.persisted =
          ( \/ m = "CHAT_MESSAGE"
            \/ m = "SYNC" /\ (flags.captureDisplay \/ flags.captureInput \/ flags.captureAudio)
            \/ m = "AUDIO" /\ flags.captureAudio
            \/ m \in {"MOUSE", "KEY"} /\ flags.captureInput
            \/ m = "IMG" /\ flags.captureDisplay )

(***************************************************************************)
(* VM SETTINGS (HandleMessage CREATE_VM and UPDATE_VM_CONFIG,              *)
(* VirtualMachinesList::AddAdminVirtualMachine, ValidateVmSetting).        *)
(* AdminVirtualMachine is not part of the source: its constructor keeps    *)
(* the initial settings, UpdateSettings applies the modifications when     *)
(* each of them is valid and reports whether they were.  The admin has     *)
(* passed the is_admin_ gate.                                              *)
(***************************************************************************)
\* ids of the VMs: the first two are read from the database, the others are
\* handed out to the VMs created
VsStoredIds == {1, 2}

\* the turn times an admin sends, and the one of the stored VMs
VmTurnTimes == {0, 30}
StoredTurnTime == 30

\* number of admin requests in one run
MaxVsEvents == 3

VsIds == 1..(2 + MaxVsEvents)

VsVm(present, turn_time) == [present |-> present, turn_time |-> turn_time]

VsTask(op, id, turn_time, is_valid_settings) ==
  [op |-> op, id |-> id, turn_time |-> turn_time,
   is_valid_settings |-> is_valid_settings]

VsEvent(op, id, turn_time, pre) ==
  [op |-> op, id |-> id, turn_time |-> turn_time, pre |-> pre]

InitVmset ==
  /\ vs_registry = [id \in VsIds |-> VsVm(id \in VsStoredIds,
                                         IF id \in VsStoredIds THEN StoredTurnTime ELSE 0)]
  /\ vs_strand = <<>>
  /\ vs_calls = <<>>
  /\ vs_event = VsEvent("", 0, 0, vs_registry)
  /\ vs_events = 0

\* ValidateVmSetting, case TURN_TIME
ValidateVmSetting(turn_time) == turn_time > 0

\* Database::GetNewVmId: the next id
GetNewVmId(registry) ==
  LET used == { id \in VsIds : registry[id].present }
  IN  (CHOOSE m \in used : \A x \in used : x <= m) + 1

\* HandleMessage CREATE_VM with the turn time of the initial settings
VsCreateVm ==
  /\ vs_events < MaxVsEvents
  /\ vs_events' = vs_events + 1
  /\ \E turn_time \in VmTurnTimes :
       vs_strand' = Append(vs_strand, VsTask("create", 0, turn_time, FALSE))
  /\ UNCHANGED <<vs_registry, vs_calls, vs_event, notVmset>>

\* HandleMessage UPDATE_VM_CONFIG with a turn time among the modifications
VsUpdateVmConfig ==
  /\ vs_events < MaxVsEvents
  /\ vs_events' = vs_events + 1
  /\ \E id \in VsIds, turn_time \in VmTurnTimes :
       vs_strand' = Append(vs_strand, VsTask("update_config", id, turn_time, FALSE))
  /\ UNCHANGED <<vs_registry, vs_calls, vs_event, notVmset>>

\* the CREATE_VM lambda: AddAdminVirtualMachine with the initial settings as
\* they came, CreateVm in the database, the response with the new id
VsCreateVmTask(task) ==
  LET id == GetNewVmId(vs_registry) IN
  /\ vs_registry' = [vs_registry EXCEPT ![id] = VsVm(TRUE, task.turn_time)]
  /\ vs_event' = VsEvent("create", id, task.turn_time, vs_registry)
  /\ UNCHANGED vs_calls

\* the UPDATE_VM_CONFIG lambda: UpdateSettings of the VM, if it exists
VsUpdateVmConfigTask(task) ==
  /\ vs_calls' = IF vs_registry[task.id].present
                 THEN Append(vs_calls, task) ELSE vs_calls
  /\ UNCHANGED <<vs_registry, vs_event>>

\* AdminVirtualMachine::UpdateSettings: valid modifications are applied, the
\* completion is dispatched to virtual_machines_ with the verdict
VsUpdateSettings ==
  /\ vs_calls # <<>>
  /\ LET call == Head(vs_calls)
         is_valid_settings == ValidateVmSetting(call.turn_time)
     IN
     /\ vs_registry' =
          IF is_valid_settings
          THEN [vs_registry EXCEPT ![call.id].turn_time = call.turn_time]
          ELSE vs_registry
     /\ vs_event' = VsEvent("update_config", call.id, call.turn_time, vs_registry)
     /\ vs_strand' = Append(vs_strand,
          VsTask("config_done", call.id, call.turn_time, is_valid_settings))
  /\ vs_calls' = Tail(vs_calls)
  /\ UNCHANGED <<vs_events, notVmset>>

\* the wrapped completion: UpdateVirtualMachineInfo when the settings were
\* valid and the VM is still there; the settings stay as they are
VsUpdateVmConfigCompletion(task) ==
  UNCHANGED <<vs_registry, vs_calls, vs_event>>

\* run the task at the head of virtual_machines_
VsRunTask ==
  /\ vs_strand # <<>>
  /\ vs_strand' = Tail(vs_strand)
  /\ LET task == Head(vs_strand) IN
     CASE task.op = "create" -> VsCreateVmTask(task)
       [] task.op = "update_config" -> VsUpdateVmConfigTask(task)
       [] task.op = "config_done" -> VsUpdateVmConfigCompletion(task)
  /\ UNCHANGED <<vs_events, notVmset>>

NextVmset ==
  \/ VsCreateVm
  \/ VsUpdateVmConfig
  \/ VsUpdateSettings
  \/ VsRunTask

\* C33: a settings change with a turn time <= 0, by update-vm-config or as
\* the initial settings of create-vm, leaves the registry and the settings of
\* its VMs as they were, and no VM of the registry has a turn time <= 0
TurnTimeAlwaysPositive ==
  /\ (vs_event.op # "" /\ vs_event.turn_time <= 0) => vs_registry = vs_event.pre
  /\ \A id \in VsIds : vs_registry[id].present => vs_registry[id].turn_time > 0

(***************************************************************************)
(* REGISTRATION WITH AN INVITE (HandleMessage                              *)
(* ACCOUNT_REGISTRATION_REQUEST whose invite id is not empty: no captcha,  *)
(* create_account on settings_).  A username is the sequence of its        *)
(* characters.  The database and Common::ValidateUsername are not part of  *)
(* the source: ValidateInvite yields whether the invite can be redeemed    *)
(* and the username it binds (empty when it binds none), CreateAccount     *)
(* refuses a username that is taken and redeems the invite.                *)
(***************************************************************************)
\* the usernames a client sends, of the lengths 0 to MaxNameLen
MaxNameLen == 4
ClientUsernames == { [i \in 1..n |-> "x"] : n \in 0..MaxNameLen }

\* Common::ValidateUsername: the lengths of a valid username
MinUsernameLen == 3

\* the invites: one binds no username, one binds a username, one is unknown
\* to the database
InviteIds == {"unbound", "bound", "unknown"}
BoundUsername == <<"e", "v", "e">>

\* number of registration requests in one run
MaxInviteEvents == 2

RegisterRequest(username, invite_id, password_ok, totp_ok) ==
  [username |-> username, invite_id |-> invite_id,
   password_ok |-> password_ok, totp_ok |-> totp_ok]

RegisterEvent(request, is_valid, valid_username, outcome, created, pre) ==
  [request |-> request, is_valid |-> is_valid, valid_username |-> valid_username,
   outcome |-> outcome, created |-> created, pre |-> pre]

InitInvite ==
  /\ inv_tasks = <<>>
  /\ inv_accounts = {}
  /\ inv_invites = {"unbound", "bound"}
  /\ inv_event = RegisterEvent(RegisterRequest(<<>>, "", FALSE, FALSE),
                               FALSE, <<>>, "", <<>>, {})
  /\ inv_events = 0

\* a ^ b on unsigned integers
RECURSIVE BitXor(_, _)
BitXor(a, b) ==
  IF a = 0 /\ b = 0 THEN 0
  ELSE (((a % 2) + (b % 2)) % 2) + (2 * BitXor(a \div 2, b \div 2))

\* Common::ValidateUsername
ValidateUsername(username) ==
  MinUsernameLen <= Len(username) /\ Len(username) <= MaxNameLen

\* Database::ValidateInvite
ValidateInvite(invites, invite_id) ==
  [is_valid |-> invite_id \in invites,
   username |-> IF invite_id = "bound" /\ invite_id \in invites
                THEN BoundUsername ELSE <<>>]

\* valid_username.empty() ^ requested_username.size(), as the condition of
\* the if
InviteUsernameMismatch(valid_username, requested_username) ==
  BitXor(IF valid_username = <<>> THEN 1 ELSE 0, Len(requested_username)) # 0

\* HandleMessage ACCOUNT_REGISTRATION_REQUEST with an invite id
InviteRegistrationRequest ==
  /\ inv_events < MaxInviteEvents
  /\ inv_events' = inv_events + 1
  /\ \E username \in ClientUsernames, invite_id \in InviteIds,
        password_ok \in BOOLEAN, totp_ok \in BOOLEAN :
       inv_tasks' = Append(inv_tasks,
         RegisterRequest(username, invite_id, password_ok, totp_ok))
  /\ UNCHANGED <<inv_accounts, inv_invites, inv_event, notInvite>>

\* create_account on settings_, for a request with an invite id
CreateAccountTask ==
  /\ inv_tasks # <<>>
  /\ inv_tasks' = Tail(inv_tasks)
  /\ LET request == Head(inv_tasks)
         invite == ValidateInvite(inv_invites, request.invite_id)
         valid_username == invite.username
         ev(outcome, created) ==
           RegisterEvent(request, invite.is_valid, valid_username, outcome,
                         created, inv_accounts)
     IN
     IF ~invite.is_valid \/ InviteUsernameMismatch(valid_username, request.username)
     THEN /\ inv_event' = ev("INVITE_INVALID", <<>>)
          /\ UNCHANGED <<inv_accounts, inv_invites>>
     ELSE IF ~request.password_ok
     THEN /\ inv_event' = ev("PASSWORD_INVALID", <<>>)
          /\ UNCHANGED <<inv_accounts, inv_invites>>
     ELSE IF ~request.totp_ok
     THEN /\ inv_event' = ev("TOTP_ERROR", <<>>)
          /\ UNCHANGED <<inv_accounts, inv_invites>>
     ELSE \* Database::CreateAccount(valid_username, ...); what it makes of
          \* an empty username is open
          \E register_result \in
               IF valid_username \in inv_accounts THEN {"USERNAME_TAKEN"}
               ELSE IF valid_username = <<>> THEN {"SUCCESS", "USERNAME_INVALID"}
               ELSE {"SUCCESS"} :
            IF register_result # "SUCCESS"
            THEN /\ inv_event' = ev(register_result, <<>>)
                 /\ UNCHANGED <<inv_accounts, inv_invites>>
            ELSE /\ inv_accounts' = inv_accounts \cup {valid_username}
                 /\ inv_invites' = inv_invites \ {request.invite_id}
                 /\ inv_event' = ev("SUCCESS", valid_username)
  /\ UNCHANGED <<inv_events, notInvite>>

NextInvite ==
  \/ InviteRegistrationRequest
  \/ CreateAccountTask

\* C34: a registration that redeems a valid invite, with a password and a
\* TOTP key that pass, creates the account under the client's username when
\* the invite binds none and that username is valid and free, and under the
\* invite's username when the invite binds one
InviteUsernameHonoured ==
  ( /\ inv_event.outcome # ""
    /\ inv_event.is_valid
    /\ inv_event.request.password_ok /\ inv_event.request.totp_ok ) =>
    LET requested == inv_event.request.username
        bound == ValidateInvite({inv_event.request.invite_id},
                                inv_event.request.invite_id).username
    IN
    /\ ( /\ bound = <<>>
         /\ ValidateUsername(requested)
         /\ requested \notin inv_event.pre ) =>
         /\ inv_event.outcome = "SUCCESS"
         /\ inv_event.created = requested
    /\ ( bound # <<>> /\ inv_event.outcome = "SUCCESS" ) =>
         inv_event.created = bound
    /\ ( bound # <<>> /\ requested = <<>> /\ bound \notin inv_event.pre ) =>
         /\ inv_event.outcome = "SUCCESS"
         /\ inv_event.created = bound

(***************************************************************************)
(* CHAT HISTORY AND BROADCAST OF ONE VM CHANNEL (HandleMessage             *)
(* CONNECT_TO_CHANNEL and CHAT_MESSAGE with a VM destination, the          *)
(* leave_channel of OnDisconnect).  UserChannel and ChatRoom are not part  *)
(* of the source: AddUser inserts, RemoveUser erases, BroadcastMessage     *)
(* queues the message on every member, AddUserMessage appends to a ring    *)
(* of the last HistoryBound messages, GetChatHistory copies the ring.  The *)
(* sockets have a username and have passed the captcha and the rate limit; *)
(* the VM exists and allows guests.  A request goes through the socket's   *)
(* username_ (whose hop is part of the handler's step) to                  *)
(* virtual_machines_ and from there to the channel.  A chat message is its *)
(* serial number in the channel.                                           *)
(***************************************************************************)
\* the sockets of the channel
Joiners == {"j", "t"}

\* the ring of ChatRoom keeps this many messages
HistoryBound == 2

\* number of client events (requests and disconnects) in one run
MaxJoinEvents == 5

JoinTask(op, sock) == [op |-> op, sock |-> sock]

\* the messages a socket is sent
ConnectResponse(history) == [kind |-> "connect_response", history |-> history, serial |-> 0]
ChatBroadcast(serial) == [kind |-> "chat_message", history |-> <<>>, serial |-> serial]

InitJoin ==
  /\ jn_live = [s \in Joiners |-> TRUE]
  /\ jn_connected_vm_id_ = [s \in Joiners |-> 0]
  /\ jn_vms_strand = <<>>
  /\ jn_channel_strand = <<>>
  /\ jn_users = {}
  /\ jn_chat_history = <<>>
  /\ jn_messages = 0
  /\ jn_inbox = [s \in Joiners |-> <<>>]
  /\ jn_events = 0

JoinClientEvent(s) ==
  /\ jn_live[s]
  /\ jn_events < MaxJoinEvents
  /\ jn_events' = jn_events + 1

\* HandleMessage CONNECT_TO_CHANNEL for the VM
JoinConnectToChannel(s) ==
  /\ JoinClientEvent(s)
  /\ jn_vms_strand' = Append(jn_vms_strand, JoinTask("connect", s))
  /\ UNCHANGED <<jn_live, jn_connected_vm_id_, jn_channel_strand, jn_users,
                 jn_chat_history, jn_messages, jn_inbox>>
  /\ UNCHANGED notJoin

\* HandleMessage CHAT_MESSAGE with the VM as destination
JoinChatMessage(s) ==
  /\ JoinClientEvent(s)
  /\ jn_vms_strand' = Append(jn_vms_strand, JoinTask("chat", s))
  /\ UNCHANGED <<jn_live, jn_connected_vm_id_, jn_channel_strand, jn_users,
                 jn_chat_history, jn_messages, jn_inbox>>
  /\ UNCHANGED notJoin

\* CollabVmSocket::OnDisconnect: leave_channel for the connected VM
JoinOnDisconnect(s) ==
  /\ JoinClientEvent(s)
  /\ jn_live' = [jn_live EXCEPT ![s] = FALSE]
  /\ jn_vms_strand' = IF jn_connected_vm_id_[s] # 0
                      THEN Append(jn_vms_strand, JoinTask("leave", s))
                      ELSE jn_vms_strand
  /\ UNCHANGED <<jn_connected_vm_id_, jn_channel_strand, jn_users,
                 jn_chat_history, jn_messages, jn_inbox>>
  /\ UNCHANGED notJoin

\* run the task at the head of the virtual_machines_ strand:
\* GetAdminVirtualMachine, GetSettings and GetUserChannel
RunJoinVmsTask ==
  /\ jn_vms_strand # <<>>
  /\ jn_vms_strand' = Tail(jn_vms_strand)
  /\ jn_channel_strand' = Append(jn_channel_strand, Head(jn_vms_strand))
  /\ UNCHANGED <<jn_live, jn_connected_vm_id_, jn_users, jn_chat_history,
                 jn_messages, jn_inbox, jn_events>>
  /\ UNCHANGED notJoin

\* ChatRoom::AddUserMessage: append, evicting the oldest of a full ring
AddUserMessage(history, message) ==
  IF Len(history) < HistoryBound THEN Append(history, message)
  ELSE Append(Tail(history), message)

\* UserChannel::BroadcastMessage: QueueMessage on every member
BroadcastToUsers(inbox, users, message) ==
  [s \in Joiners |-> IF s \in users THEN Append(inbox[s], message) ELSE inbox[s]]

\* the inner lambda connect_to_channel(channel): leave the VM connected so
\* far, connected_vm_id_ = channel.GetId(), the connect response with the
\* chat history, AddUser
JoinConnectTask(s) ==
  /\ jn_vms_strand' = IF jn_connected_vm_id_[s] # 0
                      THEN Append(jn_vms_strand, JoinTask("leave", s))
                      ELSE jn_vms_strand
  /\ jn_connected_vm_id_' = [jn_connected_vm_id_ EXCEPT ![s] = VmId]
  /\ jn_inbox' = [jn_inbox EXCEPT ![s] = Append(@, ConnectResponse(jn_chat_history))]
  /\ jn_users' = jn_users \cup {s}
  /\ UNCHANGED <<jn_chat_history, jn_messages>>

\* the lambda send_message(channel): AddUserMessage and BroadcastMessage
JoinSendMessage(s) ==
  /\ jn_messages' = jn_messages + 1
  /\ jn_chat_history' = AddUserMessage(jn_chat_history, jn_messages + 1)
  /\ jn_inbox' = BroadcastToUsers(jn_inbox, jn_users, ChatBroadcast(jn_messages + 1))
  /\ UNCHANGED <<jn_vms_strand, jn_connected_vm_id_, jn_users>>

\* leave_channel: channel.RemoveUser
JoinRemoveUser(s) ==
  /\ jn_users' = jn_users \ {s}
  /\ UNCHANGED <<jn_vms_strand, jn_connected_vm_id_, jn_chat_history, jn_messages,
                 jn_inbox>>

\* run the task at the head of the channel's strand
RunJoinChannelTask ==
  /\ jn_channel_strand # <<>>
  /\ jn_channel_strand' = Tail(jn_channel_strand)
  /\ LET task == Head(jn_channel_strand) IN
       CASE task.op = "connect" -> JoinConnectTask(task.sock)
         [] task.op = "chat" -> JoinSendMessage(task.sock)
         [] task.op = "leave" -> JoinRemoveUser(task.sock)
  /\ UNCHANGED <<jn_live, jn_events>>
  /\ UNCHANGED notJoin

NextJoin ==
  \/ \E s \in Joiners : JoinConnectToChannel(s)
  \/ \E s \in Joiners : JoinChatMessage(s)
  \/ \E s \in Joiners : JoinOnDisconnect(s)
  \/ RunJoinVmsTask
  \/ RunJoinChannelTask

\* the position of the last connect response a socket was sent, 0 if none
LastConnectResponse(s) ==
  IF \E i \in 1..Len(jn_inbox[s]) : jn_inbox[s][i].kind = "connect_response"
  THEN CHOOSE i \in 1..Len(jn_inbox[s]) :
         /\ jn_inbox[s][i].kind = "connect_response"
         /\ \A k \in (i + 1)..Len(jn_inbox[s]) : jn_inbox[s][k].kind # "connect_response"
  ELSE 0

\* how often a socket was sent the message as a broadcast after position r
BroadcastsAfter(s, r, serial) ==
  Cardinality({ i \in (r + 1)..Len(jn_inbox[s]) :
                  jn_inbox[s][i].kind = "chat_message" /\ jn_inbox[s][i].serial = serial })

\* C38: a socket is sent a connect response before any broadcast of the
\* channel, and a live session that has joined the channel and has not left
\* it has every chat message of the channel exactly once: a message that was
\* in the channel when it joined is in the chat history of its connect
\* response if it was among the last HistoryBound ones and is not broadcast
\* to it later, a message that came after is broadcast to it once
JoinerSeesEachMessageOnce ==
  \A s \in Joiners :
    /\ jn_inbox[s] # <<>> => jn_inbox[s][1].kind = "connect_response"
    /\ (jn_live[s] /\ LastConnectResponse(s) # 0) =>
         LET r == LastConnectResponse(s)
             history == jn_inbox[s][r].history
             joined == IF history = <<>> THEN 0 ELSE history[Len(history)]
         IN \A serial \in 1..jn_messages :
              IF serial <= joined
              THEN /\ BroadcastsAfter(s, r, serial) = 0
                   /\ serial > joined - HistoryBound => serial \in Range(history)
              ELSE /\ BroadcastsAfter(s, r, serial) = 1
                   /\ serial \notin Range(history)

(***************************************************************************)
(* Specifications.                                                         *)
(***************************************************************************)
\* every subsystem but the direct chats; the settings of the database are any
InitNoChatters ==
  /\ InitSend /\ InitUser /\ InitTurn /\ InitIp /\ InitChan
  /\ InitAdmin /\ InitRename /\ InitVm /\ InitRec /\ InitOwner /\ InitAuth /\ InitInfo
  /\ InitVmset /\ InitInvite /\ InitJoin

\* the settings of the database are any, and so are the earlier direct chats
InitAnySettings == InitNoChatters /\ InitChat

\* no direct chat was set up so far
InitNoChats == InitAnySettings /\ chat_rooms_ = [s \in Chatters |-> {}]

\* the parts that do not read the connection settings start with the cap off
InitNoFiles == InitNoChats /\ max_connections_enabled = FALSE /\ max_connections = 1

\* the schema defaults of the capture flags are any
InitAnyDefaults == InitNoFiles /\ InitPreview /\ InitFilterWith(AllCaptureFlags)

Init == InitNoFiles /\ InitPreview /\ InitFilter

SpecSend == Init /\ [][NextSend]_vars

\* a task of a send strand runs in the end, and so does the completion of a
\* write that is outstanding
SpecSendFair ==
  /\ Init /\ [][NextSend]_vars
  /\ \A s \in Sockets : WF_vars(RunSendTask(s)) /\ WF_vars(WriteCompletes(s, FALSE))

SpecUser == Init /\ [][NextUser]_vars

SpecTurn == Init /\ [][NextTurnSpec]_vars

SpecChan == Init /\ [][NextChan]_vars

\* the connection settings are any
InitIpAny == InitNoChats /\ InitPreview /\ InitFilter

SpecIp == InitIpAny /\ [][NextIp]_vars

\* max-connections is enabled and the settings stay as they are
InitIpStable == InitIpAny /\ max_connections_enabled = TRUE

SpecIpStable == InitIpStable /\ [][NextIpStable]_vars

\* B's table is empty or full
InitChatAny ==
  /\ InitAnySettings /\ InitPreview /\ InitFilter
  /\ max_connections_enabled = FALSE /\ max_connections = 1

SpecChat == InitChatAny /\ [][NextChat]_vars

\* B's table is empty, full, or has room for one more chat
InitChatLimit ==
  /\ InitNoChatters /\ InitChatWith({{}, NearFullTable, FullTable})
  /\ InitPreview /\ InitFilter
  /\ max_connections_enabled = FALSE /\ max_connections = 1

SpecChatLimit == InitChatLimit /\ [][NextChat]_vars

SpecAdmin == Init /\ [][NextAdmin]_vars

SpecRename == Init /\ [][NextRename]_vars

SpecVm == Init /\ [][NextVm]_vars

SpecRec == Init /\ [][NextRec]_vars

SpecOwner == Init /\ [][NextOwner]_vars

SpecAuth == Init /\ [][NextAuth]_vars

SpecInfo == Init /\ [][NextInfo]_vars

SpecFilter == InitAnyDefaults /\ [][NextFilter]_vars

SpecVmset == Init /\ [][NextVmset]_vars

SpecInvite == Init /\ [][NextInvite]_vars

SpecJoin == Init /\ [][NextJoin]_vars

\* the recording files of the VM are any
InitAnyRecordings ==
  InitNoFiles /\ recordings \in Catalogues /\ preview = NoPreview /\ InitFilter

\* the handler runs on its thread until it returns
SpecPreview == InitAnyRecordings /\ [][NextPreview]_vars /\ WF_vars(NextPreview)

====
